---- MODULE Spec2Model ----
(***************************************************************************)
(* A model of the configuration engine driven by the notebooks of this     *)
(* repository: configparser.RawConfigParser / ConfigParser, as the cells   *)
(* construct, mutate, read, write and query them.                          *)
(*                                                                         *)
(* Text is modelled character by character: a string is a sequence of      *)
(* one-character strings, so that lowercasing, stripping, splitting into   *)
(* lines, the "key = value" rendering and its parsing are computed, not    *)
(* assumed.  Values that are not strings (None, True, the omitted-fallback *)
(* sentinel, raised exceptions) are one-element tuples holding a marker    *)
(* that is longer than one character, so they never equal a string.        *)
(***************************************************************************)
EXTENDS Integers, Sequences, FiniteSets, TLC

(***************************************************************************)
(* Markers: non-string Python values and raised exceptions.                *)
(***************************************************************************)
NONE == <<"<None>">>
TRUE_ == <<"<True>">>
FALSE_ == <<"<False>">>
UNSET == <<"<UNSET>">>
LISTTAG == "<list>"

NoSectionError == <<"<NoSectionError>">>
NoOptionError == <<"<NoOptionError>">>
DuplicateSectionError == <<"<DuplicateSectionError>">>
DuplicateOptionError == <<"<DuplicateOptionError>">>
ValueError == <<"<ValueError>">>
TypeError == <<"<TypeError>">>
AttributeError == <<"<AttributeError>">>
InterpolationMissingOptionError == <<"<InterpolationMissingOptionError>">>
InterpolationSyntaxError == <<"<InterpolationSyntaxError>">>
InterpolationDepthError == <<"<InterpolationDepthError>">>
MissingSectionHeaderError == <<"<MissingSectionHeaderError>">>
ParsingError == <<"<ParsingError>">>
NotABoolean == <<"<ValueError: Not a boolean>">>
KeyError == <<"<KeyError>">>

Errors ==
    { NoSectionError, NoOptionError, DuplicateSectionError, DuplicateOptionError,
      ValueError, TypeError, AttributeError, InterpolationMissingOptionError,
      InterpolationSyntaxError, InterpolationDepthError,
      MissingSectionHeaderError, ParsingError, NotABoolean, KeyError }

IsError(v) == v \in Errors

\* A Python list of strings held as a value (an option read by a parse pass
\* that has not joined its lines yet): the marker, then the lines joined by
\* "\n" (a line never contains one).
IsList(v) == Len(v) > 0 /\ v[1] = LISTTAG

\* A str: a sequence of one-character strings.
IsStr(v) == ~IsList(v) /\ v \notin Errors \union {NONE, TRUE_, FALSE_, UNSET}

(***************************************************************************)
(* str methods.                                                            *)
(***************************************************************************)
NL == "\n"
TAB == "\t"

\* str.isspace for one character.
IsSpace(c) == c \in {" ", TAB, NL}

UpperToLower ==
    [c \in {"A", "B", "D", "E", "F", "I", "L", "M", "N", "O", "S", "T", "U", "X", "Y"} |->
        CASE c = "A" -> "a" [] c = "B" -> "b" [] c = "D" -> "d" [] c = "E" -> "e"
          [] c = "F" -> "f" [] c = "I" -> "i" [] c = "L" -> "l" [] c = "M" -> "m"
          [] c = "N" -> "n"
          [] c = "O" -> "o" [] c = "S" -> "s" [] c = "T" -> "t" [] c = "U" -> "u"
          [] c = "X" -> "x" [] c = "Y" -> "y"]

\* str.lower, over the letters the model's inputs use.
Lower(s) ==
    [i \in 1..Len(s) |-> IF s[i] \in DOMAIN UpperToLower THEN UpperToLower[s[i]] ELSE s[i]]

\* s[i:] with a 0-based Python index i >= 0.
From(s, i) == IF i >= Len(s) THEN <<>> ELSE SubSeq(s, i + 1, Len(s))

\* s[:i] with a 0-based Python index i >= 0.
Upto(s, i) == IF i <= 0 THEN <<>> ELSE SubSeq(s, 1, IF i > Len(s) THEN Len(s) ELSE i)

\* str.find(c) for a set of one-character needles: the 0-based index of the
\* first occurrence of any of them, or -1.
FindAny(s, cs) ==
    IF \E i \in 1..Len(s) : s[i] \in cs
    THEN (CHOOSE i \in 1..Len(s) : s[i] \in cs /\ \A j \in 1..(i - 1) : s[j] \notin cs) - 1
    ELSE -1

Find(s, c) == FindAny(s, {c})

\* The 0-based index of the first non-space character, or Len(s).
FirstNonSpace(s) ==
    IF \E i \in 1..Len(s) : ~IsSpace(s[i])
    THEN (CHOOSE i \in 1..Len(s) : ~IsSpace(s[i]) /\ \A j \in 1..(i - 1) : IsSpace(s[j])) - 1
    ELSE Len(s)

\* The 1-based index of the last non-space character, or 0.
LastNonSpace(s) ==
    IF \E i \in 1..Len(s) : ~IsSpace(s[i])
    THEN CHOOSE i \in 1..Len(s) : ~IsSpace(s[i]) /\ \A j \in (i + 1)..Len(s) : IsSpace(s[j])
    ELSE 0

LStrip(s) == From(s, FirstNonSpace(s))
RStrip(s) == Upto(s, LastNonSpace(s))
Strip(s) == RStrip(LStrip(s))

StartsWith(s, p) == Len(s) >= Len(p) /\ SubSeq(s, 1, Len(p)) = p

\* str.replace(c, t) for a one-character c.
RECURSIVE Replace(_, _, _)
Replace(s, c, t) ==
    IF s = <<>> THEN <<>>
    ELSE (IF s[1] = c THEN t ELSE <<s[1]>>) \o Replace(Tail(s), c, t)

\* sep.join(parts) for a one-character sep.
RECURSIVE Join(_, _)
Join(parts, sep) ==
    IF parts = <<>> THEN <<>>
    ELSE IF Len(parts) = 1 THEN parts[1]
    ELSE parts[1] \o <<sep>> \o Join(Tail(parts), sep)

\* s.split(c) for a one-character c: always at least one part.
RECURSIVE Split(_, _)
Split(s, c) ==
    LET p == Find(s, c) IN
    IF p < 0 THEN <<s>> ELSE <<Upto(s, p)>> \o Split(From(s, p + 1), c)

\* Iterating a text stream: the lines, each without its newline; a final
\* newline does not open one more (empty) line.
Lines(text) ==
    IF text = <<>> THEN <<>>
    ELSE LET parts == Split(text, NL) IN
         IF parts[Len(parts)] = <<>> THEN SubSeq(parts, 1, Len(parts) - 1) ELSE parts

(***************************************************************************)
(* An insertion-ordered dict: a sequence of <<key, value>> pairs with       *)
(* distinct keys.                                                          *)
(***************************************************************************)
Keys(d) == [i \in 1..Len(d) |-> d[i][1]]
HasKey(d, k) == \E i \in 1..Len(d) : d[i][1] = k
Index(d, k) == CHOOSE i \in 1..Len(d) : d[i][1] = k
Lookup(d, k) == d[Index(d, k)][2]

\* d[k] = v that appends an entry whether or not the key is there.
Put_AlwaysAppends(d, k, v) == Append(d, <<k, v>>)

\* d[k] = v: an existing key keeps its position, a new one goes last.
Put(d, k, v) ==
    IF HasKey(d, k) THEN [d EXCEPT ![Index(d, k)] = <<k, v>>] ELSE Append(d, <<k, v>>)

\* del d[k]
Del(d, k) ==
    LET i == Index(d, k) IN SubSeq(d, 1, i - 1) \o SubSeq(d, i + 1, Len(d))

(***************************************************************************)
(* The parser object.  p is the record of its fields: _sections (a dict of *)
(* dicts), _defaults (a dict), _interpolation ("none" for RawConfigParser,  *)
(* "basic" for ConfigParser) and _strict.                                  *)
(***************************************************************************)
DEFAULTSECT == <<"D", "E", "F", "A", "U", "L", "T">>

\* The recursion limit of interpolation.
MAX_INTERPOLATION_DEPTH == 10

\* optionxform that keeps the option name as it is written.
optionxform_Identity(optionstr) == optionstr

\* optionxform: option names are compared and stored in lower case.
optionxform(optionstr) == Lower(optionstr)

\* sections(): the section names, in order; never DEFAULT.
SectionNames(p) == Keys(p.sections)

has_section(p, section) == HasKey(p.sections, section)

\* 'name in parser'
Contains(p, key) == key = DEFAULTSECT \/ has_section(p, key)

\* The dict a section argument addresses in set() and remove_option(): an
\* empty name or DEFAULT is the defaults dict.
IsDefaultArg(section) == section = <<>> \/ section = DEFAULTSECT

has_option(p, section, option) ==
    IF IsDefaultArg(section) THEN HasKey(p.defaults, optionxform(option))
    ELSE IF ~HasKey(p.sections, section) THEN FALSE
    ELSE \/ HasKey(Lookup(p.sections, section), optionxform(option))
         \/ HasKey(p.defaults, optionxform(option))

\* dict.update(other): other's keys overwrite in place or are appended.
RECURSIVE Update(_, _)
Update(d, other) ==
    IF other = <<>> THEN d ELSE Update(Put(d, other[1][1], other[1][2]), Tail(other))

\* options(section): the section's own keys, then the keys only DEFAULT has.
\* options() that starts from the defaults and updates them with the section.
options_DefaultsFirst(p, section) ==
    IF ~HasKey(p.sections, section) THEN NoSectionError
    ELSE Keys(Update(p.defaults, Lookup(p.sections, section)))

options(p, section) ==
    IF ~HasKey(p.sections, section) THEN NoSectionError
    ELSE Keys(Update(Lookup(p.sections, section), p.defaults))

\* Iterating a section proxy.
ProxyIter(p, name) ==
    IF name # DEFAULTSECT THEN options(p, name) ELSE Keys(p.defaults)

(***************************************************************************)
(* BasicInterpolation.                                                     *)
(***************************************************************************)
\* _KEYCRE.match(rest) for rest starting with "%(": the 0-based end of the
\* match of %\(([^)]+)\)s, or -1.
KeyMatchEnd(rest) ==
    LET q == Find(rest, ")") IN       \* [^)]+ stops at the first ")"
    IF Len(rest) >= 2 /\ rest[1] = "%" /\ rest[2] = "(" /\ q >= 3
       /\ Len(rest) >= q + 2 /\ rest[q + 2] = "s"
    THEN q + 2 ELSE -1

\* value.replace('%%', '')
RECURSIVE DropPercentPairs(_)
DropPercentPairs(s) ==
    IF s = <<>> THEN <<>>
    ELSE IF Len(s) >= 2 /\ s[1] = "%" /\ s[2] = "%" THEN DropPercentPairs(From(s, 2))
    ELSE <<s[1]>> \o DropPercentPairs(Tail(s))

\* _KEYCRE.sub('', s)
RECURSIVE DropReferences(_)
DropReferences(s) ==
    IF s = <<>> THEN <<>>
    ELSE IF KeyMatchEnd(s) >= 0 THEN DropReferences(From(s, KeyMatchEnd(s)))
    ELSE <<s[1]>> \o DropReferences(Tail(s))

\* BasicInterpolation.before_set: the value, or ValueError.
before_set(p, value) ==
    IF p.interpolation = "none" THEN value
    ELSE IF Find(DropReferences(DropPercentPairs(value)), "%") >= 0
         THEN ValueError
         ELSE value

\* The lookup chain vars > section > defaults of _unify_values, as the list
\* of its dicts.
ChainHas(chain, k) == \E i \in 1..Len(chain) : HasKey(chain[i], k)
ChainGet(chain, k) ==
    Lookup(chain[CHOOSE i \in 1..Len(chain) :
                    HasKey(chain[i], k) /\ \A j \in 1..(i - 1) : ~HasKey(chain[j], k)], k)

\* vardict of _unify_values: keys through optionxform, later keys overwrite.
RECURSIVE VarDict(_)
VarDict(vars) ==
    IF vars = <<>> THEN <<>>
    ELSE Put(VarDict(SubSeq(vars, 1, Len(vars) - 1)),
             optionxform(vars[Len(vars)][1]), vars[Len(vars)][2])

\* _interpolate_some.  The result is <<accum>> on return and an exception
\* marker on raise; accum is the text appended so far.
RECURSIVE InterpolateLoop(_, _, _, _)
\* _interpolate_some without its raise: past the depth limit the text built so
\* far is returned.
InterpolateSome_ReturnsAtLimit(accum, rest, map, depth) ==
    IF depth > MAX_INTERPOLATION_DEPTH THEN <<accum>>
    ELSE InterpolateLoop(accum, rest, map, depth)

\* _interpolate_some that raises one level early.
InterpolateSome_RaisesAtLimit(accum, rest, map, depth) ==
    IF depth >= MAX_INTERPOLATION_DEPTH THEN InterpolationDepthError
    ELSE InterpolateLoop(accum, rest, map, depth)

InterpolateSome(accum, rest, map, depth) ==
    IF depth > MAX_INTERPOLATION_DEPTH THEN InterpolationDepthError
    ELSE InterpolateLoop(accum, rest, map, depth)

\* The loop of _interpolate_some with "%%" appended for the escape "%%".
InterpolateLoop_KeepsEscape(accum, rest, map, depth) ==
    IF rest = <<>> THEN <<accum>>
    ELSE LET pp == Find(rest, "%") IN
    IF pp < 0 THEN <<accum \o rest>>
    ELSE LET acc1 == accum \o Upto(rest, pp)
             r1 == From(rest, pp)
             c == SubSeq(r1, 2, IF Len(r1) >= 2 THEN 2 ELSE 1)
         IN
         IF c = <<"%">> THEN InterpolateLoop(acc1 \o <<"%", "%">>, From(r1, 2), map, depth)
         ELSE IF c = <<"(">> THEN
            LET e == KeyMatchEnd(r1) IN
            IF e < 0 THEN InterpolationSyntaxError
            ELSE LET var == optionxform(SubSeq(r1, 3, e - 2))
                     r2 == From(r1, e)
                 IN
                 IF ~ChainHas(map, var) THEN InterpolationMissingOptionError
                 ELSE LET v == ChainGet(map, var) IN
                      IF v = NONE THEN TypeError
                      ELSE IF IsList(v) THEN TypeError
                      ELSE IF Find(v, "%") >= 0 THEN
                          LET sub == InterpolateSome(acc1, v, map, depth + 1) IN
                          IF IsError(sub) THEN sub
                          ELSE InterpolateLoop(sub[1], r2, map, depth)
                      ELSE InterpolateLoop(acc1 \o v, r2, map, depth)
         ELSE InterpolationSyntaxError

InterpolateLoop(accum, rest, map, depth) ==
    IF rest = <<>> THEN <<accum>>
    ELSE LET pp == Find(rest, "%") IN
    IF pp < 0 THEN <<accum \o rest>>
    ELSE LET acc1 == accum \o Upto(rest, pp)
             r1 == From(rest, pp)
             c == SubSeq(r1, 2, IF Len(r1) >= 2 THEN 2 ELSE 1)
         IN
         IF c = <<"%">> THEN InterpolateLoop(acc1 \o <<"%">>, From(r1, 2), map, depth)
         ELSE IF c = <<"(">> THEN
            LET e == KeyMatchEnd(r1) IN
            IF e < 0 THEN InterpolationSyntaxError
            ELSE LET var == optionxform(SubSeq(r1, 3, e - 2))
                     r2 == From(r1, e)
                 IN
                 IF ~ChainHas(map, var) THEN InterpolationMissingOptionError
                 ELSE LET v == ChainGet(map, var) IN
                      IF v = NONE THEN TypeError      \* "%" in None
                      ELSE IF IsList(v) THEN TypeError \* ''.join of a list item
                      ELSE IF Find(v, "%") >= 0 THEN
                          LET sub == InterpolateSome(acc1, v, map, depth + 1) IN
                          IF IsError(sub) THEN sub
                          ELSE InterpolateLoop(sub[1], r2, map, depth)
                      ELSE InterpolateLoop(acc1 \o v, r2, map, depth)
         ELSE InterpolationSyntaxError

\* Interpolation.before_get
before_get(p, value, map) ==
    IF p.interpolation = "none" THEN value
    ELSE IF IsList(value) THEN AttributeError   \* list.find
    ELSE LET r == InterpolateSome(<<>>, value, map, 1) IN
         IF IsError(r) THEN r ELSE r[1]

(***************************************************************************)
(* Reading one option.                                                     *)
(***************************************************************************)
\* _unify_values with the section's dict ahead of vars in the chain.
UnifyValues_SectionFirst(p, section, vars) ==
    IF HasKey(p.sections, section)
    THEN <<Lookup(p.sections, section), VarDict(vars), p.defaults>>
    ELSE IF section # DEFAULTSECT THEN NoSectionError
    ELSE <<<<>>, VarDict(vars), p.defaults>>

\* _unify_values with the defaults ahead of the section's dict in the chain.
UnifyValues_DefaultsFirst(p, section, vars) ==
    IF HasKey(p.sections, section)
    THEN <<VarDict(vars), p.defaults, Lookup(p.sections, section)>>
    ELSE IF section # DEFAULTSECT THEN NoSectionError
    ELSE <<VarDict(vars), p.defaults, <<>> >>

\* _unify_values: the chain, or NoSectionError.
UnifyValues(p, section, vars) ==
    IF HasKey(p.sections, section)
    THEN <<VarDict(vars), Lookup(p.sections, section), p.defaults>>
    ELSE IF section # DEFAULTSECT THEN NoSectionError
    ELSE <<VarDict(vars), <<>>, p.defaults>>

\* get that answers the fallback as soon as the section's own dict lacks the
\* option, before the defaults are consulted.
get_FallbackBeforeDefaults(p, section, option, raw, vars, fallback) ==
    LET d == UnifyValues(p, section, vars) IN
    IF d = NoSectionError
    THEN (IF fallback = UNSET THEN NoSectionError ELSE fallback)
    ELSE IF fallback # UNSET /\ ~HasKey(d[1], optionxform(option))
                             /\ ~HasKey(d[2], optionxform(option))
    THEN fallback
    ELSE IF ~ChainHas(d, optionxform(option))
    THEN NoOptionError
    ELSE LET value == ChainGet(d, optionxform(option)) IN
         IF raw \/ value = NONE THEN value ELSE before_get(p, value, d)

\* get that interpolates whatever the raw flag says.
get_IgnoresRaw(p, section, option, raw, vars, fallback) ==
    LET d == UnifyValues(p, section, vars) IN
    IF d = NoSectionError
    THEN (IF fallback = UNSET THEN NoSectionError ELSE fallback)
    ELSE IF ~ChainHas(d, optionxform(option))
    THEN (IF fallback = UNSET THEN NoOptionError ELSE fallback)
    ELSE LET value == ChainGet(d, optionxform(option)) IN
         IF value = NONE THEN value ELSE before_get(p, value, d)

\* get that takes fallback=None for no fallback at all.
get_NoneIsNoFallback(p, section, option, raw, vars, fallback) ==
    LET d == UnifyValues(p, section, vars) IN
    IF d = NoSectionError
    THEN (IF fallback \in {UNSET, NONE} THEN NoSectionError ELSE fallback)
    ELSE IF ~ChainHas(d, optionxform(option))
    THEN (IF fallback \in {UNSET, NONE} THEN NoOptionError ELSE fallback)
    ELSE LET value == ChainGet(d, optionxform(option)) IN
         IF raw \/ value = NONE THEN value ELSE before_get(p, value, d)

\* get(section, option, raw=, vars=, fallback=)
get(p, section, option, raw, vars, fallback) ==
    LET d == UnifyValues(p, section, vars) IN
    IF d = NoSectionError
    THEN (IF fallback = UNSET THEN NoSectionError ELSE fallback)
    ELSE IF ~ChainHas(d, optionxform(option))
    THEN (IF fallback = UNSET THEN NoOptionError ELSE fallback)
    ELSE LET value == ChainGet(d, optionxform(option)) IN
         IF raw \/ value = NONE THEN value ELSE before_get(p, value, d)

BOOLEAN_TRUE == { <<"1">>, <<"y", "e", "s">>, <<"t", "r", "u", "e">>, <<"o", "n">> }
BOOLEAN_FALSE == { <<"0">>, <<"n", "o">>, <<"f", "a", "l", "s", "e">>, <<"o", "f", "f">> }

\* _convert_to_boolean without value.lower()
ConvertToBoolean_CaseSensitive(value) ==
    IF ~IsStr(value) THEN AttributeError
    ELSE IF value \in BOOLEAN_TRUE THEN TRUE_
    ELSE IF value \in BOOLEAN_FALSE THEN FALSE_
    ELSE NotABoolean

\* _convert_to_boolean
ConvertToBoolean(value) ==
    IF ~IsStr(value) THEN AttributeError             \* value.lower
    ELSE IF Lower(value) \in BOOLEAN_TRUE THEN TRUE_
    ELSE IF Lower(value) \in BOOLEAN_FALSE THEN FALSE_
    ELSE NotABoolean

\* getboolean that converts the fallback as it converts a stored value.
getboolean_ConvertsFallback(p, section, option, raw, vars, fallback) ==
    LET v == get(p, section, option, raw, vars, UNSET) IN
    IF v \in {NoSectionError, NoOptionError}
    THEN (IF fallback = UNSET THEN v
          ELSE IF IsStr(fallback) THEN ConvertToBoolean(fallback) ELSE fallback)
    ELSE IF IsError(v) THEN v
    ELSE ConvertToBoolean(v)

\* getboolean(section, option, raw=, vars=, fallback=): _get_conv
getboolean(p, section, option, raw, vars, fallback) ==
    LET v == get(p, section, option, raw, vars, UNSET) IN
    IF v \in {NoSectionError, NoOptionError}
    THEN (IF fallback = UNSET THEN v ELSE fallback)
    ELSE IF IsError(v) THEN v
    ELSE ConvertToBoolean(v)

\* An int: the marker, "-" if it is negative, and its decimal digits.
INTTAG == "<int>"
DIGITS == {"0", "1", "2", "3", "4", "5", "6", "7", "8", "9"}

\* The digits without leading zeros; "0" if none is left.
RECURSIVE DropLeadingZeros(_)
DropLeadingZeros(ds) ==
    IF Len(ds) > 1 /\ ds[1] = "0" THEN DropLeadingZeros(Tail(ds)) ELSE ds

\* int(value) for a str: surrounding whitespace is dropped, a sign may lead,
\* and the rest is digits, which single underscores may separate.
ConvertToInt(value) ==
    IF ~IsStr(value) THEN TypeError
    ELSE LET t == Strip(value)
             signed == Len(t) >= 1 /\ t[1] \in {"+", "-"}
             body == IF signed THEN Tail(t) ELSE t
             wellFormed ==
                 /\ body # <<>>
                 /\ \A i \in 1..Len(body) : body[i] \in DIGITS \union {"_"}
                 /\ body[1] # "_" /\ body[Len(body)] # "_"
                 /\ \A i \in 1..(Len(body) - 1) : ~(body[i] = "_" /\ body[i + 1] = "_")
             ds == DropLeadingZeros(SelectSeq(body, LAMBDA c : c # "_"))
         IN IF ~wellFormed THEN ValueError
            ELSE <<INTTAG>> \o (IF signed /\ t[1] = "-" /\ ds # <<"0">> THEN <<"-">> ELSE <<>>)
                            \o ds

\* getint(section, option, raw=, vars=, fallback=): _get_conv
getint(p, section, option, raw, vars, fallback) ==
    LET v == get(p, section, option, raw, vars, UNSET) IN
    IF v \in {NoSectionError, NoOptionError}
    THEN (IF fallback = UNSET THEN v ELSE fallback)
    ELSE IF IsError(v) THEN v
    ELSE ConvertToInt(v)

\* A float: the marker and nan, or the marker, "-" if it is negative, and inf
\* or the decimal m e x: the digits m of the value without leading and
\* trailing zeros, and the power of ten x they are multiplied with.  Zero is
\* 0e0, with no sign: 0.0 == -0.0.
FLOATTAG == "<float>"
DigitChars == <<"0", "1", "2", "3", "4", "5", "6", "7", "8", "9">>

DigitValue(c) == (CHOOSE i \in 1..10 : DigitChars[i] = c) - 1

\* str(n) for an int n >= 0.
RECURSIVE IntToDigits(_)
IntToDigits(n) ==
    IF n < 10 THEN <<DigitChars[n + 1]>>
    ELSE IntToDigits(n \div 10) \o <<DigitChars[(n % 10) + 1]>>

\* int(ds) for digits ds.
RECURSIVE DigitsToInt(_)
DigitsToInt(ds) ==
    IF ds = <<>> THEN 0
    ELSE 10 * DigitsToInt(SubSeq(ds, 1, Len(ds) - 1)) + DigitValue(ds[Len(ds)])

\* ds without its trailing zeros.
RECURSIVE DropTrailingZeros(_)
DropTrailingZeros(ds) ==
    IF ds # <<>> /\ ds[Len(ds)] = "0" THEN DropTrailingZeros(SubSeq(ds, 1, Len(ds) - 1)) ELSE ds

\* Digits that single underscores may separate; "" counts if emptyOk.
IsDigitGroup(s, emptyOk) ==
    IF s = <<>> THEN emptyOk
    ELSE /\ \A i \in 1..Len(s) : s[i] \in DIGITS \union {"_"}
         /\ s[1] # "_" /\ s[Len(s)] # "_"
         /\ \A i \in 1..(Len(s) - 1) : ~(s[i] = "_" /\ s[i + 1] = "_")

WithoutUnderscores(s) == SelectSeq(s, LAMBDA c : c # "_")

\* The first 16 digits of ds, zeros added if it has fewer, as the two ints
\* of its first and its last 8 digits.
Leading16(ds) ==
    LET padded == [i \in 1..16 |-> IF i <= Len(ds) THEN ds[i] ELSE "0"] IN
    <<DigitsToInt(SubSeq(padded, 1, 8)), DigitsToInt(SubSeq(padded, 9, 16))>>

\* a > b for pairs of ints, the first one first.
PairGreater(a, b) == a[1] > b[1] \/ (a[1] = b[1] /\ a[2] > b[2])

\* float(value) for a str: surrounding whitespace is dropped, a sign may
\* lead, and the rest is inf, infinity or nan in any case, or a decimal with
\* digits before or after a point and an exponent after e or E, its digits
\* separated by single underscores at most.  A decimal past the largest
\* double is inf and one below half the smallest double is zero; decimals of
\* up to 16 digits are told apart, as the doubles above 1e-307 are.
ConvertToFloat(value) ==
    IF ~IsStr(value) THEN TypeError
    ELSE LET t == Strip(value)
             signed == Len(t) >= 1 /\ t[1] \in {"+", "-"}
             neg == IF signed /\ t[1] = "-" THEN <<"-">> ELSE <<>>
             body == IF signed THEN Tail(t) ELSE t
             word == Lower(body)
             ePos == FindAny(body, {"e", "E"})
             mant == IF ePos < 0 THEN body ELSE Upto(body, ePos)
             expo == IF ePos < 0 THEN <<>> ELSE From(body, ePos + 1)
             expSigned == Len(expo) >= 1 /\ expo[1] \in {"+", "-"}
             expNeg == expSigned /\ expo[1] = "-"
             expBody == IF expSigned THEN Tail(expo) ELSE expo
             dot == Find(mant, ".")
             intPart == IF dot < 0 THEN mant ELSE Upto(mant, dot)
             fracPart == IF dot < 0 THEN <<>> ELSE From(mant, dot + 1)
             wellFormed ==
                 /\ IsDigitGroup(intPart, TRUE)
                 /\ IsDigitGroup(fracPart, TRUE)
                 /\ intPart # <<>> \/ fracPart # <<>>
                 /\ ePos >= 0 => IsDigitGroup(expBody, FALSE)
             frac == WithoutUnderscores(fracPart)
             all == DropLeadingZeros(WithoutUnderscores(intPart) \o frac)
             m == DropTrailingZeros(all)
             expDigits == DropLeadingZeros(WithoutUnderscores(expBody))
             expHuge == Len(expDigits) > 5
             x == (IF ePos < 0 \/ expHuge THEN 0
                   ELSE IF expNeg THEN 0 - DigitsToInt(expDigits) ELSE DigitsToInt(expDigits))
                  - Len(frac) + (Len(all) - Len(m))
             order == Len(m) + x - 1
             tooLarge ==
                 \/ expHuge /\ ~expNeg
                 \/ ~expHuge /\ order >= 309
                 \/ ~expHuge /\ order = 308
                      /\ PairGreater(Leading16(m), <<17976931, 34862315>>)
             tooSmall ==
                 \/ expHuge /\ expNeg
                 \/ ~expHuge /\ order <= -325
                 \/ ~expHuge /\ order = -324
                      /\ ~PairGreater(Leading16(m), <<24703282, 29206232>>)
         IN IF word = <<"n", "a", "n">> THEN <<FLOATTAG, "n", "a", "n">>
            ELSE IF word \in {<<"i", "n", "f">>, <<"i", "n", "f", "i", "n", "i", "t", "y">>}
            THEN <<FLOATTAG>> \o neg \o <<"i", "n", "f">>
            ELSE IF ~wellFormed THEN ValueError
            ELSE IF m = <<>> \/ tooSmall THEN <<FLOATTAG, "0", "e", "0">>
            ELSE IF tooLarge THEN <<FLOATTAG>> \o neg \o <<"i", "n", "f">>
            ELSE <<FLOATTAG>> \o neg \o m \o <<"e">>
                     \o (IF x < 0 THEN <<"-">> ELSE <<>>)
                     \o IntToDigits(IF x < 0 THEN 0 - x ELSE x)

\* getfloat(section, option, raw=, vars=, fallback=): _get_conv
getfloat(p, section, option, raw, vars, fallback) ==
    LET v == get(p, section, option, raw, vars, UNSET) IN
    IF v \in {NoSectionError, NoOptionError}
    THEN (IF fallback = UNSET THEN v ELSE fallback)
    ELSE IF IsError(v) THEN v
    ELSE ConvertToFloat(v)

(***************************************************************************)
(* Mutators.  Each gives the parser after the call and what the call       *)
(* returned or raised: [p |-> ..., res |-> ...].                           *)
(***************************************************************************)
Ret(p, res) == [p |-> p, res |-> res]

\* The dict of a section argument of set() / remove_option().
SectDict(p, section) ==
    IF IsDefaultArg(section) THEN p.defaults ELSE Lookup(p.sections, section)

WithSectDict(p, section, d) ==
    IF IsDefaultArg(section) THEN [p EXCEPT !.defaults = d]
    ELSE [p EXCEPT !.sections = Put(p.sections, section, d)]

add_section(p, section) ==
    IF section = DEFAULTSECT THEN Ret(p, ValueError)
    ELSE IF HasKey(p.sections, section) THEN Ret(p, DuplicateSectionError)
    ELSE Ret([p EXCEPT !.sections = Put(p.sections, section, <<>>)], NONE)

\* RawConfigParser.set, which stores any value
RawSet(p, section, option, value) ==
    LET v == IF value # <<>> /\ IsStr(value) THEN before_set(p, value) ELSE value IN
    IF v = ValueError THEN Ret(p, ValueError)
    ELSE IF ~IsDefaultArg(section) /\ ~HasKey(p.sections, section) THEN Ret(p, NoSectionError)
    ELSE Ret(WithSectDict(p, section, Put(SectDict(p, section), optionxform(option), v)), NONE)

\* set(section, option, value): ConfigParser.set validates the type first.
set(p, section, option, value) ==
    IF p.interpolation # "none" /\ ~IsStr(value) THEN Ret(p, TypeError)
    ELSE RawSet(p, section, option, value)

\* remove_option that, like get, goes on to the defaults when the section
\* does not hold the option.
remove_option_FallsThrough(p, section, option) ==
    IF ~IsDefaultArg(section) /\ ~HasKey(p.sections, section) THEN Ret(p, NoSectionError)
    ELSE IF HasKey(SectDict(p, section), optionxform(option))
    THEN Ret(WithSectDict(p, section, Del(SectDict(p, section), optionxform(option))), TRUE_)
    ELSE IF HasKey(p.defaults, optionxform(option))
    THEN Ret([p EXCEPT !.defaults = Del(p.defaults, optionxform(option))], TRUE_)
    ELSE Ret(p, FALSE_)

remove_option(p, section, option) ==
    IF ~IsDefaultArg(section) /\ ~HasKey(p.sections, section) THEN Ret(p, NoSectionError)
    ELSE IF HasKey(SectDict(p, section), optionxform(option))
    THEN Ret(WithSectDict(p, section, Del(SectDict(p, section), optionxform(option))), TRUE_)
    ELSE Ret(p, FALSE_)

remove_section(p, section) ==
    IF HasKey(p.sections, section)
    THEN Ret([p EXCEPT !.sections = Del(p.sections, section)], TRUE_)
    ELSE Ret(p, FALSE_)

\* read_dict({section: keys}) for one section: the keys are set one by one,
\* and an exception leaves what was set before it.
RECURSIVE ReadDictKeys(_, _, _, _)
ReadDictKeys(p, section, keys, added) ==
    IF keys = <<>> THEN Ret(p, NONE)
    ELSE LET key == optionxform(keys[1][1]) IN
         IF p.strict /\ key \in added THEN Ret(p, DuplicateOptionError)
         ELSE LET r == set(p, section, key, keys[1][2]) IN
              IF IsError(r.res) THEN r
              ELSE ReadDictKeys(r.p, section, Tail(keys), added \union {key})

read_dict(p, section, keys) ==
    ReadDictKeys(add_section(p, section).p, section, keys, {})

\* parser[key] = value
SetItem(p, key, value) ==
    LET cleared ==
            IF key = DEFAULTSECT THEN [p EXCEPT !.defaults = <<>>]
            ELSE IF HasKey(p.sections, key) THEN [p EXCEPT !.sections = Put(p.sections, key, <<>>)]
            ELSE p
    IN read_dict(cleared, key, value)

(***************************************************************************)
(* write(fp)                                                               *)
(***************************************************************************)
\* repr of a str without quotes or backslashes in it.
RECURSIVE ReprBody(_)
ReprBody(s) ==
    IF s = <<>> THEN <<>>
    ELSE (CASE s[1] = NL -> <<"\\", "n">> [] s[1] = TAB -> <<"\\", "t">> [] OTHER -> <<s[1]>>)
         \o ReprBody(Tail(s))

RECURSIVE ReprItems(_)
ReprItems(items) ==
    IF items = <<>> THEN <<>>
    ELSE <<"'">> \o ReprBody(items[1]) \o <<"'">>
         \o (IF Len(items) > 1 THEN <<",", " ">> ELSE <<>>) \o ReprItems(Tail(items))

\* str(value)
Str(value) ==
    IF value = NONE THEN <<"N", "o", "n", "e">>
    ELSE IF IsList(value) THEN <<"[">> \o ReprItems(Split(Tail(value), NL)) \o <<"]">>
    ELSE value

\* The "key = value" line of _write_section (allow_no_value is off).
OptionLine(key, value) ==
    key \o <<" ", "=", " ">> \o Replace(Str(value), NL, <<NL, TAB>>) \o <<NL>>

RECURSIVE OptionLines(_)
OptionLines(items) ==
    IF items = <<>> THEN <<>>
    ELSE OptionLine(items[1][1], items[1][2]) \o OptionLines(Tail(items))

\* _write_section
WriteSection(section_name, section_items) ==
    <<"[">> \o section_name \o <<"]", NL>> \o OptionLines(section_items) \o <<NL>>

RECURSIVE WriteSections(_)
WriteSections(sects) ==
    IF sects = <<>> THEN <<>>
    ELSE WriteSection(sects[1][1], sects[1][2]) \o WriteSections(Tail(sects))

\* write(fp): the text written.
write(p) ==
    (IF p.defaults # <<>> THEN WriteSection(DEFAULTSECT, p.defaults) ELSE <<>>)
    \o WriteSections(p.sections)

(***************************************************************************)
(* _read(fp, fpname): the line-by-line parse, with the constructor's        *)
(* defaults: comment prefixes # and ;, no inline comments, delimiters = and *)
(* :, empty lines kept in values, no valueless options.                    *)
(*                                                                         *)
(* The loop state st: the parser p (values read by this pass are lists),   *)
(* cursect ("none", "defaults" or "section"), sectname, optname,           *)
(* indent_level, elements_added (its section names in sects_added, its     *)
(* (section, option) pairs in opts_added), e (a ParsingError is pending)   *)
(* and raised (the exception that ended the pass, or <<>>).                *)
(***************************************************************************)
COMMENT_PREFIXES == {"#", ";"}
DELIMITERS == {"=", ":"}

ListOf(lines) == <<LISTTAG>> \o Join(lines, NL)
ListAppend(v, line) == v \o <<NL>> \o line

\* SECTCRE.match(value): \[(?P<header>[^]]+)\] ; the header, or NONE.
SectionHeader(value) ==
    LET q == Find(value, "]") IN
    IF Len(value) >= 1 /\ value[1] = "[" /\ q >= 2 THEN SubSeq(value, 2, q) ELSE NONE

\* The dict cursect refers to.
CurDict(st) ==
    IF st.cursect = "defaults" THEN st.p.defaults ELSE Lookup(st.p.sections, st.sectname)

WithCurDict(st, d) ==
    IF st.cursect = "defaults" THEN [st EXCEPT !.p.defaults = d]
    ELSE [st EXCEPT !.p.sections = Put(st.p.sections, st.sectname, d)]

\* A section header whatever the document holds: a section the document has
\* already is a duplicate.
ReadHeader_StoredIsDuplicate(st1, header) ==
    IF HasKey(st1.p.sections, header) THEN
        IF st1.p.strict
        THEN [st1 EXCEPT !.sectname = header, !.raised = DuplicateSectionError]
        ELSE [st1 EXCEPT !.sectname = header, !.cursect = "section", !.optname = <<>>,
                         !.sects_added = @ \union {header}]
    ELSE IF header = DEFAULTSECT THEN
        [st1 EXCEPT !.sectname = header, !.cursect = "defaults", !.optname = <<>>]
    ELSE [st1 EXCEPT !.sectname = header, !.cursect = "section", !.optname = <<>>,
                     !.p.sections = Put(@, header, <<>>),
                     !.sects_added = @ \union {header}]

\* A section header without the branch for the default section's name.
ReadHeader_DefaultIsSection(st1, header) ==
    IF HasKey(st1.p.sections, header) THEN
        IF st1.p.strict /\ header \in st1.sects_added
        THEN [st1 EXCEPT !.sectname = header, !.raised = DuplicateSectionError]
        ELSE [st1 EXCEPT !.sectname = header, !.cursect = "section", !.optname = <<>>,
                         !.sects_added = @ \union {header}]
    ELSE [st1 EXCEPT !.sectname = header, !.cursect = "section", !.optname = <<>>,
                     !.p.sections = Put(@, header, <<>>),
                     !.sects_added = @ \union {header}]

\* A section header that never counts as a duplicate.
ReadHeader_NeverDuplicate(st1, header) ==
    IF HasKey(st1.p.sections, header) THEN
        [st1 EXCEPT !.sectname = header, !.cursect = "section", !.optname = <<>>,
                    !.sects_added = @ \union {header}]
    ELSE IF header = DEFAULTSECT THEN
        [st1 EXCEPT !.sectname = header, !.cursect = "defaults", !.optname = <<>>]
    ELSE [st1 EXCEPT !.sectname = header, !.cursect = "section", !.optname = <<>>,
                     !.p.sections = Put(@, header, <<>>),
                     !.sects_added = @ \union {header}]

\* The line is a section header: cursect becomes the section's dict, which
\* is created unless the document has it or it is the defaults.
ReadHeader(st1, header) ==
    IF HasKey(st1.p.sections, header) THEN
        IF st1.p.strict /\ header \in st1.sects_added
        THEN [st1 EXCEPT !.sectname = header, !.raised = DuplicateSectionError]
        ELSE [st1 EXCEPT !.sectname = header, !.cursect = "section", !.optname = <<>>,
                         !.sects_added = @ \union {header}]
    ELSE IF header = DEFAULTSECT THEN
        [st1 EXCEPT !.sectname = header, !.cursect = "defaults", !.optname = <<>>]
    ELSE [st1 EXCEPT !.sectname = header, !.cursect = "section", !.optname = <<>>,
                     !.p.sections = Put(@, header, <<>>),
                     !.sects_added = @ \union {header}]

\* An option line that is stored whether or not this pass has read the
\* option before.
ReadOption_NeverDuplicate(st1, value, d) ==
    LET optname == optionxform(RStrip(Upto(value, d)))
        optval == Strip(From(value, d + 1))
        st2 == [st1 EXCEPT !.optname = optname,
                           !.e = IF RStrip(Upto(value, d)) = <<>>
                                 THEN Append(@, st1.lineno) ELSE @]
    IN WithCurDict([st2 EXCEPT !.opts_added = @ \union {<<st2.sectname, optname>>}],
                   Put(CurDict(st2), optname, ListOf(<<optval>>)))

\* The line is an option line with its delimiter at d: the name is what is
\* before it, the value what is after it; a name this pass has read already
\* in this section is a duplicate if the parser is strict.
ReadOption(st1, value, d) ==
    LET optname == optionxform(RStrip(Upto(value, d)))
        optval == Strip(From(value, d + 1))
        st2 == [st1 EXCEPT !.optname = optname,
                           !.e = IF RStrip(Upto(value, d)) = <<>>
                                 THEN Append(@, st1.lineno) ELSE @]
    IN
    IF st2.p.strict /\ <<st2.sectname, optname>> \in st2.opts_added
    THEN [st2 EXCEPT !.raised = DuplicateOptionError]
    ELSE WithCurDict([st2 EXCEPT !.opts_added = @ \union {<<st2.sectname, optname>>}],
                     Put(CurDict(st2), optname, ListOf(<<optval>>)))

\* A line as deep as the line before the open value continues it as well.
IsContinuation_NotShallower(st, cur_indent_level) ==
    st.cursect # "none" /\ st.optname # <<>> /\ cur_indent_level >= st.indent_level

\* The line continues the value of the option read last: there is one, and
\* the line is indented deeper than the last line that was not a continuation.
IsContinuation(st, cur_indent_level) ==
    st.cursect # "none" /\ st.optname # <<>> /\ cur_indent_level > st.indent_level

\* One iteration of the loop over the lines.
ReadLine(st, line) ==
    LET isComment == Strip(line) # <<>> /\ Strip(line)[1] \in COMMENT_PREFIXES
        value == IF isComment THEN <<>> ELSE Strip(line)
        cur_indent_level == FirstNonSpace(line)
        header == SectionHeader(value)
        d == FindAny(value, DELIMITERS)
    IN
    IF value = <<>> THEN
        \* an empty line is added to the open value, unless it held a comment
        IF ~isComment /\ st.cursect # "none" /\ st.optname # <<>>
           /\ Lookup(CurDict(st), st.optname) # NONE
        THEN WithCurDict(st, Put(CurDict(st), st.optname,
                                 ListAppend(Lookup(CurDict(st), st.optname), <<>>)))
        ELSE st
    ELSE IF IsContinuation(st, cur_indent_level) THEN
        \* a continuation line
        WithCurDict(st, Put(CurDict(st), st.optname,
                            ListAppend(Lookup(CurDict(st), st.optname), value)))
    ELSE LET st1 == [st EXCEPT !.indent_level = cur_indent_level] IN
    IF header # NONE THEN ReadHeader(st1, header)
    ELSE IF st1.cursect = "none" THEN [st1 EXCEPT !.raised = MissingSectionHeaderError]
    ELSE IF d < 0 THEN [st1 EXCEPT !.e = Append(@, st1.lineno)] \* not an option line
    ELSE ReadOption(st1, value, d)

RECURSIVE ReadLines(_, _)
ReadLines(st, lines) ==
    IF lines = <<>> \/ st.raised # <<>> THEN st
    ELSE ReadLines(ReadLine([st EXCEPT !.lineno = @ + 1], lines[1]), Tail(lines))

\* '\n'.join(val).rstrip() for every value that is still a list
JoinDict(d) ==
    [i \in 1..Len(d) |-> IF IsList(d[i][2]) THEN <<d[i][1], RStrip(Tail(d[i][2]))>> ELSE d[i]]

\* _join_multiline_values
JoinMultilineValues(p) ==
    [p EXCEPT !.defaults = JoinDict(p.defaults),
              !.sections = [i \in 1..Len(p.sections) |->
                                <<p.sections[i][1], JoinDict(p.sections[i][2])>>]]

\* The loop of _read with the defaults as the section of the first lines.
ReadState_StartsInDefaults(p, text) ==
    ReadLines([p |-> p, cursect |-> "defaults", sectname |-> DEFAULTSECT, optname |-> <<>>,
               indent_level |-> 0, sects_added |-> {}, opts_added |-> {},
               lineno |-> 0, e |-> <<>>, raised |-> <<>>],
              Lines(text))

\* The loop of _read over the lines of the source, numbered from 1; e is the
\* line numbers of the ParsingError the loop builds.
ReadState(p, text) ==
    ReadLines([p |-> p, cursect |-> "none", sectname |-> NONE, optname |-> <<>>,
               indent_level |-> 0, sects_added |-> {}, opts_added |-> {},
               lineno |-> 0, e |-> <<>>, raised |-> <<>>],
              Lines(text))

\* _read(fp, fpname), called by read(), read_file() and read_string().
Read(p, text) ==
    LET st == ReadState(p, text) IN
    IF st.raised # <<>> THEN Ret(st.p, st.raised)
    ELSE Ret(JoinMultilineValues(st.p), IF st.e # <<>> THEN ParsingError ELSE NONE)

\* The line numbers in the errors attribute of the ParsingError that _read
\* raises; none if it raises something else or nothing.
ParsingErrorLines(p, text) ==
    LET st == ReadState(p, text) IN
    IF st.raised # <<>> THEN <<>> ELSE st.e

(***************************************************************************)
(* The constructor.                                                        *)
(***************************************************************************)
\* _read_defaults: RawConfigParser stores the mapping as it is, ConfigParser
\* reads it as a dict with interpolation held off.
ReadDefaults(p, dflt) ==
    IF p.interpolation = "none"
    THEN Ret([p EXCEPT !.defaults =
                 Update(<<>>, [i \in 1..Len(dflt) |-> <<optionxform(dflt[i][1]), dflt[i][2]>>])],
             NONE)
    ELSE LET r == read_dict([p EXCEPT !.interpolation = "none"], DEFAULTSECT, dflt) IN
         Ret([r.p EXCEPT !.interpolation = p.interpolation], r.res)

\* RawConfigParser(defaults, strict=) / ConfigParser(defaults, strict=)
Construct(interp, strictArg, dflt) ==
    ReadDefaults([sections |-> <<>>, defaults |-> <<>>, interpolation |-> interp,
                  strict |-> strictArg], dflt)

(***************************************************************************)
(* The state: one parser object (its _sections, _defaults, _interpolation  *)
(* and _strict), the file the notebook writes and reads back, and the last *)
(* call with what it returned or raised.                                   *)
(***************************************************************************)
VARIABLES sections, defaults, interpolation, strict, file, last, nops

vars == <<sections, defaults, interpolation, strict, file, last, nops>>

\* The number of mutating calls a run of SpecGet makes.
MaxGetOps == 2

Self ==
    [sections |-> sections, defaults |-> defaults, interpolation |-> interpolation,
     strict |-> strict]

\* The record of a call: its name, its arguments (those it does not take are
\* <<>> / FALSE) and its result.
Call(op, section, option, value, raw, vs, fallback, res) ==
    [op |-> op, section |-> section, option |-> option, value |-> value, raw |-> raw,
     vars |-> vs, fallback |-> fallback, res |-> res]

InitWith(interps, stricts, dflts) ==
    \E i \in interps, st \in stricts, d \in dflts :
        LET c == Construct(i, st, d) IN
        /\ ~IsError(c.res)
        /\ sections = c.p.sections
        /\ defaults = c.p.defaults
        /\ interpolation = i
        /\ strict = st
        /\ file = NONE
        /\ last = Call("init", <<>>, <<>>, d, FALSE, <<>>, UNSET, NONE)
        /\ nops = 0

\* A mutating call that gave r = [p, res], in a run of at most max of them.
Mutated(r, call, max) ==
    /\ nops < max
    /\ nops' = nops + 1
    /\ sections' = r.p.sections
    /\ defaults' = r.p.defaults
    /\ last' = call
    /\ UNCHANGED <<interpolation, strict, file>>

\* A read that writes the entries of its vars= into the section it reads.
Returned_StoresVars(call) ==
    /\ last' = call
    /\ sections' = IF call.vars # <<>> /\ HasKey(sections, call.section)
                   THEN Put(sections, call.section,
                            Update(Lookup(sections, call.section), VarDict(call.vars)))
                   ELSE sections
    /\ UNCHANGED <<defaults, interpolation, strict, file, nops>>

\* A call that only returns.
Returned(call) ==
    /\ last' = call
    /\ UNCHANGED <<sections, defaults, interpolation, strict, file, nops>>

AddSection(section, max) ==
    LET r == add_section(Self, section) IN
    Mutated(r, Call("add_section", section, <<>>, <<>>, FALSE, <<>>, UNSET, r.res), max)

Set(section, option, value, max) ==
    LET r == set(Self, section, option, value) IN
    Mutated(r, Call("set", section, option, value, FALSE, <<>>, UNSET, r.res), max)

RemoveOption(section, option, max) ==
    LET r == remove_option(Self, section, option) IN
    Mutated(r, Call("remove_option", section, option, <<>>, FALSE, <<>>, UNSET, r.res), max)

RemoveSection(section, max) ==
    LET r == remove_section(Self, section) IN
    Mutated(r, Call("remove_section", section, <<>>, <<>>, FALSE, <<>>, UNSET, r.res), max)

\* parser[section] = dict
SetSection(section, dict, max) ==
    LET r == SetItem(Self, section, dict) IN
    Mutated(r, Call("setitem", section, <<>>, dict, FALSE, <<>>, UNSET, r.res), max)

\* read_string(text)
ReadString(text, max) ==
    LET r == Read(Self, text) IN
    Mutated(r, Call("read_string", <<>>, <<>>, text, FALSE, <<>>, UNSET, r.res), max)

\* with open(name, 'w') as f: parser.write(f)
Write ==
    /\ file' = write(Self)
    /\ last' = Call("write", <<>>, <<>>, <<>>, FALSE, <<>>, UNSET, NONE)
    /\ UNCHANGED <<sections, defaults, interpolation, strict, nops>>

\* parser.read(name), of the file written before
ReadFile(max) ==
    /\ file # NONE
    /\ LET r == Read(Self, file) IN
       Mutated(r, Call("read", <<>>, <<>>, file, FALSE, <<>>, UNSET, r.res), max)

\* parser = RawConfigParser() / ConfigParser(); parser.read(name): a new
\* parser of the same class reads the file written before.
Reopen(max) ==
    /\ file # NONE
    /\ LET r == Read(Construct(interpolation, strict, <<>>).p, file) IN
       Mutated(r, Call("reopen", <<>>, <<>>, file, FALSE, <<>>, UNSET, r.res), max)

Get(section, option, raw, vs, fallback) ==
    Returned(Call("get", section, option, <<>>, raw, vs, fallback,
                  get(Self, section, option, raw, vs, fallback)))

GetBoolean(section, option, raw, vs, fallback) ==
    Returned(Call("getboolean", section, option, <<>>, raw, vs, fallback,
                  getboolean(Self, section, option, raw, vs, fallback)))

\* section in parser
HasSection(section) ==
    Returned(Call("contains", section, <<>>, <<>>, FALSE, <<>>, UNSET,
                  IF Contains(Self, section) THEN TRUE_ ELSE FALSE_))

\* option in parser[section], has_option(section, option)
HasOption(section, option) ==
    Returned(Call("has_option", section, option, <<>>, FALSE, <<>>, UNSET,
                  IF has_option(Self, section, option) THEN TRUE_ ELSE FALSE_))

GetInt(section, option, raw, vs, fallback) ==
    Returned(Call("getint", section, option, <<>>, raw, vs, fallback,
                  getint(Self, section, option, raw, vs, fallback)))

GetFloat(section, option, raw, vs, fallback) ==
    Returned(Call("getfloat", section, option, <<>>, raw, vs, fallback,
                  getfloat(Self, section, option, raw, vs, fallback)))

\* for key in parser[section]: the keys, one after the other, as a list.
IterKeys(section) ==
    Returned(Call("iter", section, <<>>, <<>>, FALSE, <<>>, UNSET,
                  IF Contains(Self, section) THEN ProxyIter(Self, section)
                  ELSE KeyError))

(***************************************************************************)
(* SpecGet: reading options.  A parser is constructed with defaults, one   *)
(* section is assigned as a dict, options are set and removed, and every   *)
(* get / getboolean is made on what results.                               *)
(***************************************************************************)
\* Section names
SecS == <<"S">>
SecLower == <<"s">>
SecT == <<"T">>

\* Option names: k holds the templates, x and y are referred to, z is never
\* stored.
KeyK == <<"k">>
KeyX == <<"x">>
KeyUpperX == <<"X">>
KeyY == <<"y">>
KeyZ == <<"z">>

Ref(name) == <<"%", "(">> \o name \o <<")", "s">>

\* The values of k: %(x)s, %(X)s-%(y)s, a%%, %(z)s%(x)s, %(x)s%(z)s
TplX == Ref(KeyX)
TplXY == Ref(KeyUpperX) \o <<"-">> \o Ref(KeyY)
TplEsc == <<"a", "%", "%">>
TplZX == Ref(KeyZ) \o Ref(KeyX)
TplXZ == Ref(KeyX) \o Ref(KeyZ)

\* The dict with the given values for k, X and y, <<>> standing for a key
\* that is left out (no option of these sets is the empty string).
DictOf(vk, vx, vy) ==
    (IF vk = <<>> THEN <<>> ELSE << <<KeyK, vk>> >>)
    \o (IF vx = <<>> THEN <<>> ELSE << <<KeyUpperX, vx>> >>)
    \o (IF vy = <<>> THEN <<>> ELSE << <<KeyY, vy>> >>)

\* The dicts assigned to a section: each template of k over plain, chained,
\* cyclic and missing x and y.
GetDicts ==
    { DictOf(TplX, <<"a">>, <<"b">>), DictOf(TplX, Ref(KeyY), <<"b">>),
      DictOf(TplX, Ref(KeyY), Ref(KeyX)), DictOf(TplX, Ref(KeyY), <<>>),
      DictOf(TplX, Ref(KeyX), <<"b">>), DictOf(TplX, <<>>, <<"b">>),
      DictOf(TplXY, <<"a">>, <<"b">>), DictOf(TplXY, <<"a">>, <<>>),
      DictOf(TplXY, <<>>, <<"b">>), DictOf(TplXY, <<"a">>, Ref(KeyX)),
      DictOf(TplXY, Ref(KeyY), <<"b">>), DictOf(TplXY, Ref(KeyY), Ref(KeyX)),
      DictOf(TplEsc, <<"a">>, <<"b">>),
      DictOf(TplZX, <<"a">>, <<"b">>), DictOf(TplZX, Ref(KeyX), <<"b">>),
      DictOf(TplXZ, <<"a">>, <<"b">>), DictOf(TplXZ, Ref(KeyX), <<"b">>),
      DictOf(<<>>, <<"a">>, <<"b">>), DictOf(<<>>, <<>>, <<"b">>),
      DictOf(<<>>, <<>>, <<>>) }

\* The defaults given to the constructor: none; x = No and y = e; k = %(y)s
\* and y = %(x)s.
GetDefaults ==
    { <<>>,
      << <<KeyX, <<"N", "o">> >>, <<KeyY, <<"e">> >> >>,
      << <<KeyK, Ref(KeyY)>>, <<KeyY, Ref(KeyX)>> >> }

\* vars= of a get
GetVars == { <<>>, << <<KeyUpperX, <<"V">> >> >> }

\* fallback= of a get
GetFallbacks == { UNSET, <<"F">> }

\* Source text: a header line, an option line, the lines as a text.
HeaderLine(name) == <<"[">> \o name \o <<"]">>
OptLine(key, value) == key \o <<" ", "=", " ">> \o value
Text(lines) == Join(lines, NL) \o <<NL>>

\* The sources a run of SpecGet parses: a template over a default, and a
\* value with a stray "%" before a reference to a self-referring x.
GetSources ==
    { Text(<< HeaderLine(DEFAULTSECT), OptLine(KeyX, <<"a">>),
              HeaderLine(SecS), OptLine(KeyK, Ref(KeyX)) >>),
      Text(<< HeaderLine(SecS), OptLine(KeyK, <<"%", "-">> \o Ref(KeyX)),
              OptLine(KeyX, Ref(KeyX)) >>) }

InitGet == InitWith({"none", "basic"}, {TRUE}, GetDefaults)

NextGet ==
    \/ \E d \in GetDicts : SetSection(SecS, d, MaxGetOps)
    \/ \E sec \in {SecS, DEFAULTSECT}, k \in {KeyX, KeyY} : Set(sec, k, <<"c">>, MaxGetOps)
    \/ \E sec \in {SecS, DEFAULTSECT}, k \in {KeyUpperX, KeyY} : RemoveOption(sec, k, MaxGetOps)
    \/ \E text \in GetSources : ReadString(text, MaxGetOps)
    \/ \E k \in {KeyK, KeyUpperX, KeyY}, raw \in BOOLEAN, vs \in GetVars,
          fb \in GetFallbacks :
            /\ vs = <<>> \/ fb = UNSET
            /\ raw => (k = KeyK /\ fb = UNSET)
            /\ Get(SecS, k, raw, vs, fb)
    \/ \E k \in {KeyUpperX, KeyY}, fb \in {UNSET, TRUE_} :
            GetBoolean(SecS, k, FALSE, <<>>, fb)

SpecGet == InitGet /\ [][NextGet]_vars

(***************************************************************************)
(* What a claim about the last call speaks of.                             *)
(***************************************************************************)
\* The options the section of the last call stores itself.
OwnOptions == IF HasKey(sections, last.section) THEN Lookup(sections, last.section) ELSE <<>>

\* The value a name stands for in the last call: the first of vars=, the
\* section's own options and the defaults that has it; UNSET if none has.
FirstMatch(name) ==
    LET n == Lower(name)
        given == { i \in 1..Len(last.vars) : Lower(last.vars[i][1]) = n }
    IN IF given # {} THEN last.vars[CHOOSE i \in given : \A j \in given : j <= i][2]
       ELSE IF HasKey(OwnOptions, n) THEN Lookup(OwnOptions, n)
       ELSE IF HasKey(defaults, n) THEN Lookup(defaults, n)
       ELSE UNSET

Plain(v) == v # UNSET /\ IsStr(v) /\ \A i \in 1..Len(v) : v[i] # "%"

\* The last call was an interpolating get of a section that exists.
InterpolatingGet ==
    /\ last.op = "get"
    /\ ~last.raw
    /\ interpolation = "basic"
    /\ HasKey(sections, last.section)

(***************************************************************************)
(* C1: a key that the section lacks and the defaults hold is answered from *)
(* the defaults, whatever fallback the caller gives: get returns the       *)
(* default value and getboolean converts it; neither returns the fallback. *)
(***************************************************************************)
C1_DefaultsOnly ==
    /\ last.op \in {"get", "getboolean"}
    /\ last.fallback # UNSET
    /\ HasKey(sections, last.section)
    /\ ~HasKey(OwnOptions, Lower(last.option))
    /\ HasKey(defaults, Lower(last.option))
    /\ FirstMatch(last.option) = Lookup(defaults, Lower(last.option))

C1_DefaultsBeatFallback ==
    C1_DefaultsOnly =>
        LET dv == Lookup(defaults, Lower(last.option)) IN
        \* the fallback F of a get is no value that is ever stored
        /\ last.op = "get" => last.res # last.fallback
        /\ (last.op = "get" /\ (last.raw \/ interpolation = "none" \/ Plain(dv)))
                => last.res = dv
        /\ (last.op = "getboolean" /\ Plain(dv))
                => last.res = (IF Lower(dv) \in BOOLEAN_TRUE THEN TRUE_
                               ELSE IF Lower(dv) \in BOOLEAN_FALSE THEN FALSE_
                               ELSE NotABoolean)

\* getboolean(S, 'X', fallback=True) is False once the defaults hold x = No.
C1_Witness ==
    /\ C1_DefaultsOnly
    /\ last.op = "getboolean"
    /\ last.fallback = TRUE_
    /\ Lookup(defaults, Lower(last.option)) = <<"N", "o">>
    /\ last.res = FALSE_

(***************************************************************************)
(* C2: in an interpolating get each placeholder %(name)s stands for the    *)
(* first of vars[name], the section's own name and the defaults' name; a   *)
(* name that none of the three has raises InterpolationMissingOptionError. *)
(* Stated for the values that are one placeholder, a placeholder whose     *)
(* value is one placeholder again, and two placeholders around a dash.     *)
(***************************************************************************)
\* The value that is read is the single placeholder of name.
ReadsRef(name) ==
    /\ InterpolatingGet
    /\ FirstMatch(last.option) \in {Ref(name), Ref(KeyUpperX)}
    /\ FirstMatch(last.option) = Ref(KeyUpperX) => name = KeyX

C2_OnePlaceholder ==
    \A name \in {KeyX, KeyY, KeyZ} :
        ReadsRef(name) =>
            LET v == FirstMatch(name) IN
            /\ v = UNSET => last.res = InterpolationMissingOptionError
            /\ Plain(v) => last.res = v
            /\ \A inner \in {KeyX, KeyY, KeyZ} :
                 (v = Ref(inner) /\ FirstMatch(inner) = UNSET)
                     => last.res = InterpolationMissingOptionError
            /\ \A inner \in {KeyX, KeyY, KeyZ} :
                 (v = Ref(inner) /\ Plain(FirstMatch(inner))) => last.res = FirstMatch(inner)

C2_TwoPlaceholders ==
    (InterpolatingGet /\ FirstMatch(last.option) = Ref(KeyUpperX) \o <<"-">> \o Ref(KeyY)) =>
        LET vx == FirstMatch(KeyX)
            vy == FirstMatch(KeyY)
        IN /\ (Plain(vx) /\ Plain(vy)) => last.res = vx \o <<"-">> \o vy
           /\ vx = UNSET => last.res = InterpolationMissingOptionError
           /\ (Plain(vx) /\ vy = UNSET) => last.res = InterpolationMissingOptionError

C2_PlaceholderPrecedence == C2_OnePlaceholder /\ C2_TwoPlaceholders

\* k = %(x)s is read with vars={'X': 'V'} from a section that stores x, over
\* defaults that hold x too: the answer is V.
C2_Witness ==
    /\ ReadsRef(KeyX)
    /\ last.option = KeyK
    /\ last.vars # <<>>
    /\ HasKey(OwnOptions, KeyX)
    /\ HasKey(defaults, KeyX)
    /\ last.res = <<"V">>

(***************************************************************************)
(* The placeholder references of the last call, as a graph over the names. *)
(***************************************************************************)
\* The names of the placeholders of a value, read as the resolver reads it:
\* %% is an escape, %(name)s a placeholder, anything else after % stops it.
RECURSIVE RefNames(_)
RefNames(v) ==
    LET pp == Find(v, "%") IN
    IF pp < 0 THEN {}
    ELSE LET r == From(v, pp) IN
         IF Len(r) >= 2 /\ r[2] = "%" THEN RefNames(From(r, 2))
         ELSE IF KeyMatchEnd(r) >= 0
              THEN {Lower(SubSeq(r, 3, KeyMatchEnd(r) - 2))} \union RefNames(From(r, KeyMatchEnd(r)))
              ELSE {}

\* A % of the value is neither an escape nor a placeholder.
RECURSIVE Malformed(_)
Malformed(v) ==
    LET pp == Find(v, "%") IN
    IF pp < 0 THEN FALSE
    ELSE LET r == From(v, pp) IN
         IF Len(r) >= 2 /\ r[2] = "%" THEN Malformed(From(r, 2))
         ELSE IF KeyMatchEnd(r) >= 0 THEN Malformed(From(r, KeyMatchEnd(r)))
              ELSE TRUE

\* The names a name refers to.
Targets(name) ==
    IF FirstMatch(name) = UNSET \/ ~IsStr(FirstMatch(name)) THEN {} ELSE RefNames(FirstMatch(name))

RECURSIVE Closure(_, _)
Closure(names, n) ==
    IF n = 0 THEN names
    ELSE Closure(names \union UNION { Targets(x) : x \in names }, n - 1)

\* The names reachable from a set of names (the model stores at most four).
Reach(names) == Closure(names, 4)

\* A cycle of references is reachable from the option that was read.
RefersToCycle ==
    \E n \in Reach({Lower(last.option)}) : n \in Reach(Targets(n))

MissingReachable == \E n \in Reach({Lower(last.option)}) : FirstMatch(n) = UNSET
MalformedReachable ==
    \E n \in Reach({Lower(last.option)}) : FirstMatch(n) # UNSET /\ Malformed(FirstMatch(n))

(***************************************************************************)
(* C5 as claimed: an interpolating get of an option whose references reach *)
(* a cycle returns InterpolationDepthError.                                *)
(***************************************************************************)
C5_CycleGivesDepthError ==
    (InterpolatingGet /\ FirstMatch(last.option) # UNSET /\ RefersToCycle)
        => last.res = InterpolationDepthError

(***************************************************************************)
(* C5, amended: an interpolating get of an option whose references reach a *)
(* cycle never returns a string; it raises InterpolationDepthError, unless *)
(* the references also reach a missing key or a malformed placeholder,     *)
(* which may raise its own error first.                                    *)
(***************************************************************************)
C5_CycleGivesInterpolationError ==
    (InterpolatingGet /\ FirstMatch(last.option) # UNSET /\ RefersToCycle) =>
        /\ last.res \in {InterpolationDepthError, InterpolationMissingOptionError,
                         InterpolationSyntaxError}
        /\ last.res = InterpolationMissingOptionError => MissingReachable
        /\ last.res = InterpolationSyntaxError => MalformedReachable

\* x = %(y)s and y = %(x)s, both stored: reading either gives the depth error.
C5_Witness ==
    /\ InterpolatingGet
    /\ RefersToCycle
    /\ ~MissingReachable
    /\ FirstMatch(KeyX) = Ref(KeyY)
    /\ FirstMatch(KeyY) = Ref(KeyX)
    /\ last.res = InterpolationDepthError

(***************************************************************************)
(* C8: %(X)s-%(y)s over x = a and y = b of the same section is a-b: both   *)
(* placeholders are replaced and the dash between them is kept; and each   *)
(* %% of a value is one % of the result.                                   *)
(***************************************************************************)
C8_BasicInterpolation ==
    InterpolatingGet =>
        /\ ( /\ FirstMatch(last.option) = Ref(KeyUpperX) \o <<"-">> \o Ref(KeyY)
             /\ HasKey(OwnOptions, KeyX) /\ Lookup(OwnOptions, KeyX) = <<"a">>
             /\ HasKey(OwnOptions, KeyY) /\ Lookup(OwnOptions, KeyY) = <<"b">>
             /\ last.vars = <<>> )
              => last.res = <<"a", "-", "b">>
        /\ FirstMatch(last.option) = <<"a", "%", "%">> => last.res = <<"a", "%">>

C8_Witness ==
    /\ InterpolatingGet
    /\ last.option = KeyK
    /\ last.vars = <<>>
    /\ FirstMatch(KeyK) = Ref(KeyUpperX) \o <<"-">> \o Ref(KeyY)
    /\ HasKey(OwnOptions, KeyX)
    /\ last.res = <<"a", "-", "b">>

(***************************************************************************)
(* C9: a get with raw=True, and any get of a parser without interpolation, *)
(* returns the stored value as it is, placeholders included, and raises no *)
(* interpolation error.                                                    *)
(***************************************************************************)
C9_RawGet ==
    /\ last.op = "get"
    /\ last.raw \/ interpolation = "none"
    /\ HasKey(sections, last.section)
    /\ FirstMatch(last.option) # UNSET

C9_RawReturnsStoredValue ==
    C9_RawGet =>
        /\ last.res = FirstMatch(last.option)
        /\ last.res \notin {InterpolationDepthError, InterpolationMissingOptionError,
                            InterpolationSyntaxError}

\* A raw get of k = %(z)s%(x)s, whose z is missing and whose x refers to
\* itself, on a parser that interpolates.
C9_Witness ==
    /\ C9_RawGet
    /\ interpolation = "basic"
    /\ last.raw
    /\ MissingReachable
    /\ RefersToCycle
    /\ last.res = Ref(KeyZ) \o Ref(KeyX)

(***************************************************************************)
(* SpecBool: getboolean.  A section is assigned a dict whose option b is a  *)
(* word, or a reference to an option t that is a word; b is set and removed *)
(* in the section and in the defaults, and getboolean reads it.            *)
(***************************************************************************)
KeyB == <<"b">>
KeyUpperB == <<"B">>
KeyT == <<"t">>

\* The number of mutating calls a run of SpecBool makes.
MaxBoolOps == 2

\* The words b is given: the eight of the table in several cases, and
\* others, the empty string among them.
BoolWords ==
    { <<"t", "r", "u", "e">>, <<"T", "R", "U", "E">>, <<"T", "r", "u", "e">>, <<"y", "e", "s">>,
      <<"Y", "e", "s">>, <<"o", "n">>, <<"O", "n">>, <<"1">>,
      <<"f", "a", "l", "s", "e">>, <<"F", "a", "l", "s", "e">>, <<"n", "o">>, <<"N", "O">>,
      <<"o", "f", "f">>, <<"o", "F", "F">>, <<"0">>, <<"m", "a", "y", "b", "e">>,
      <<"2">>, <<"y">>, <<"y", "e", "s", "s">>, <<" ", "y", "e", "s">>,
      <<"t", "r", "u">>, <<>> }

\* The words b refers to through t.
BoolReferred == { <<"Y", "e", "s">>, <<"0">>, <<"m", "a", "y", "b", "e">>, <<"o", "F", "F">> }

BoolDicts ==
    { << <<KeyB, w>> >> : w \in BoolWords }
    \union { << <<KeyB, Ref(KeyT)>>, <<KeyT, w>> >> : w \in BoolReferred }

InitBool == InitWith({"none", "basic"}, {TRUE}, {<<>>})

NextBool ==
    \/ AddSection(SecS, MaxBoolOps)
    \/ \E d \in BoolDicts : SetSection(SecS, d, MaxBoolOps)
    \/ \E sec \in {SecS, DEFAULTSECT}, w \in {<<"Y", "e", "s">>, <<"m", "a", "y", "b", "e">>} : Set(sec, KeyUpperB, w, MaxBoolOps)
    \/ RemoveOption(SecS, KeyB, MaxBoolOps)
    \/ \E raw \in BOOLEAN, fb \in {UNSET, TRUE_} : GetBoolean(SecS, KeyUpperB, raw, <<>>, fb)

SpecBool == InitBool /\ [][NextBool]_vars

(***************************************************************************)
(* C7: getboolean answers True for true, yes, on and 1, False for false,   *)
(* no, off and 0, whatever the case of the letters, and raises "Not a      *)
(* boolean" for every other string that the option resolves to.            *)
(***************************************************************************)
C7_TrueWords == { <<"t", "r", "u", "e">>, <<"y", "e", "s">>, <<"o", "n">>, <<"1">> }
C7_FalseWords == { <<"f", "a", "l", "s", "e">>, <<"n", "o">>, <<"o", "f", "f">>, <<"0">> }

\* The string the option of the last call resolves to: the stored value if
\* it is not interpolated or has no "%", what t holds if it is %(t)s; UNSET
\* if the option is not stored.
C7_Resolved ==
    LET v == FirstMatch(last.option) IN
    IF v = UNSET \/ ~IsStr(v) THEN UNSET
    ELSE IF last.raw \/ interpolation = "none" \/ Plain(v) THEN v
    ELSE IF v = Ref(KeyT) /\ Plain(FirstMatch(KeyT)) THEN FirstMatch(KeyT)
    ELSE UNSET

MaxOps == 3

DocSections == {SecS, SecLower, DEFAULTSECT}
DocKeys == {KeyX, KeyUpperX}
DocValues == {<<"a">>, <<"b">>}

\* [DEFAULT] with x and [S] with X; [default], a section like any other.
DocSources ==
    { Text(<< HeaderLine(DEFAULTSECT), OptLine(KeyX, <<"a">>),
              HeaderLine(SecS), OptLine(KeyUpperX, <<"b">>) >>),
      Text(<< HeaderLine(Lower(DEFAULTSECT)), OptLine(KeyUpperX, <<"b">>) >>) }

Init == InitWith({"basic"}, {TRUE}, {<<>>, << <<KeyUpperX, <<"d">> >> >>})

Next ==
    \/ \E sec \in DocSections : AddSection(sec, MaxOps)
    \/ \E sec \in DocSections, k \in DocKeys, v \in DocValues : Set(sec, k, v, MaxOps)
    \/ \E sec \in {SecS, DEFAULTSECT}, k \in DocKeys : RemoveOption(sec, k, MaxOps)
    \/ \E sec \in DocSections : RemoveSection(sec, MaxOps)
    \/ \E sec \in {SecS, DEFAULTSECT}, d \in {<<>>, << <<KeyUpperX, <<"a">> >> >>} :
          SetSection(sec, d, MaxOps)
    \/ \E text \in DocSources : ReadString(text, MaxOps)
    \/ \E sec \in DocSections \union {Lower(DEFAULTSECT)} : HasSection(sec)
    \/ \E sec \in DocSections, k \in DocKeys : HasOption(sec, k)
    \/ \E sec \in DocSections, k \in DocKeys : Get(sec, k, FALSE, <<>>, UNSET)

Spec == Init /\ [][Next]_vars

(***************************************************************************)
(* C4: option names are case-insensitive and section names case-sensitive. *)
(* Every dict stores an option under its lower-case name only; set, get,   *)
(* remove_option and has_option with a name in any case act on that one    *)
(* option; and "name in parser" is true exactly of the default section's   *)
(* name and of the names, letter for letter, of the sections stored.       *)
(***************************************************************************)
\* The dict the section argument of the last call addresses.
C4_Addressed ==
    IF last.section = DEFAULTSECT THEN defaults ELSE OwnOptions

C4_LowerCaseKeys(d) ==
    \A i \in 1..Len(d) :
        /\ d[i][1] = Lower(d[i][1])
        /\ \A j \in 1..Len(d) : d[j][1] = d[i][1] => j = i

C4_Stored(name) ==
    LET held == { i \in 1..Len(sections) : sections[i][1] = name } IN held # {}

C4_CaseHandling ==
    /\ C4_LowerCaseKeys(defaults)
    /\ \A i \in 1..Len(sections) : C4_LowerCaseKeys(sections[i][2])
    /\ (last.op = "set" /\ last.res = NONE) =>
           /\ HasKey(C4_Addressed, Lower(last.option))
           /\ Lookup(C4_Addressed, Lower(last.option)) = last.value
    /\ (last.op = "remove_option" /\ last.res \in {TRUE_, FALSE_}) =>
           ~HasKey(C4_Addressed, Lower(last.option))
    /\ (last.op = "get" /\ (C4_Stored(last.section) \/ last.section = DEFAULTSECT)) =>
           last.res = (IF FirstMatch(last.option) = UNSET THEN NoOptionError
                       ELSE FirstMatch(last.option))
    /\ (last.op = "has_option" /\ (C4_Stored(last.section) \/ last.section = DEFAULTSECT)) =>
           (last.res = TRUE_ <=> FirstMatch(last.option) # UNSET)
    /\ last.op \in {"get", "has_option"} /\ ~C4_Stored(last.section)
           /\ last.section # DEFAULTSECT
         => last.res \in {NoSectionError, FALSE_}
    /\ last.op = "contains" =>
           (last.res = TRUE_ <=> (C4_Stored(last.section) \/ last.section = DEFAULTSECT))

\* x was stored in S and is read as X, while no section s exists.
C4_Witness ==
    /\ last.op = "get"
    /\ last.section = SecS
    /\ last.option = KeyUpperX
    /\ HasKey(OwnOptions, KeyX)
    /\ last.res = Lookup(OwnOptions, KeyX)
    /\ ~C4_Stored(SecLower)

\* 's' in parser is False of a parser that stores S.
C4_WitnessSection ==
    /\ last.op = "contains"
    /\ last.section = SecLower
    /\ C4_Stored(SecS)
    /\ last.res = FALSE_

(***************************************************************************)
(* C10: the default section is never one of sections(), also after a       *)
(* source with a [DEFAULT] header is parsed; it is always there ("DEFAULT" *)
(* in parser, and a get of it raises no NoSectionError); and               *)
(* remove_section("DEFAULT") returns False and leaves the defaults as they *)
(* are.                                                                    *)
(***************************************************************************)
C10_NotListed ==
    /\ \A i \in 1..Len(SectionNames(Self)) : SectionNames(Self)[i] # DEFAULTSECT
    /\ Contains(Self, DEFAULTSECT)
    /\ get(Self, DEFAULTSECT, KeyX, FALSE, <<>>, UNSET) # NoSectionError

C10_RemoveKeeps ==
    (last'.op = "remove_section" /\ last'.section = DEFAULTSECT) =>
        /\ last'.res = FALSE_
        /\ defaults' = defaults

C10_DefaultSectionStays == []C10_NotListed /\ [][C10_RemoveKeeps]_vars

\* remove_section("DEFAULT") on defaults that hold x, after a source with a
\* [DEFAULT] header was parsed.
C10_Witness ==
    /\ last.op = "remove_section"
    /\ last.section = DEFAULTSECT
    /\ last.res = FALSE_
    /\ HasKey(defaults, KeyX)
    /\ HasKey(sections, SecS)
    /\ HasKey(Lookup(sections, SecS), KeyX)
    /\ last.value = <<>>

(***************************************************************************)
(* SpecIO: sources and files.  Sources are parsed one after the other into *)
(* the same parser, options are set, the parser is written to a file, and  *)
(* the file is read by the parser itself and by a new one.                 *)
(***************************************************************************)
\* The number of mutating calls a run of SpecIO makes.
MaxIOOps == 3

\* [S] x y; [S] X and [T] x; [DEFAULT] x and [S] y; x twice in [S]; [S] twice.
IOSources ==
    { Text(<< HeaderLine(SecS), OptLine(KeyX, <<"1">>), OptLine(KeyY, <<"1">>) >>),
      Text(<< HeaderLine(SecS), OptLine(KeyUpperX, <<"2">>),
              HeaderLine(SecT), OptLine(KeyX, <<"2">>) >>),
      Text(<< HeaderLine(DEFAULTSECT), OptLine(KeyX, <<"3">>),
              HeaderLine(SecS), OptLine(KeyY, <<"3">>) >>),
      Text(<< HeaderLine(SecS), OptLine(KeyX, <<"1">>), OptLine(KeyX, <<"2">>) >>),
      Text(<< HeaderLine(SecS), OptLine(KeyX, <<"1">>),
              HeaderLine(SecS), OptLine(KeyY, <<"2">>) >>) }

InitIO == InitWith({"none", "basic"}, {TRUE}, {<<>>})

NextIO ==
    \/ \E text \in IOSources : ReadString(text, MaxIOOps)
    \/ AddSection(SecS, MaxIOOps)
    \/ \E sec \in {SecS, DEFAULTSECT}, v \in {<<"a">>, <<" ", "a">>} :
          Set(sec, KeyX, v, MaxIOOps)
    \/ Write
    \/ ReadFile(MaxIOOps)
    \/ Reopen(MaxIOOps)

SpecIO == InitIO /\ [][NextIO]_vars

\* A parser of the same class and arguments with nothing read into it.
EmptyParser == Construct(interpolation, strict, <<>>).p

\* Every value of the dict is a str (no pass has left a list behind).
AllStr(d) == \A i \in 1..Len(d) : IsStr(d[i][2])
AllValuesStr == AllStr(defaults) /\ \A i \in 1..Len(sections) : AllStr(sections[i][2])

\* What parser p stores for option k of section sec; UNSET if nothing.
StoredValue(p, sec, k) ==
    IF sec = DEFAULTSECT
    THEN (IF HasKey(p.defaults, k) THEN Lookup(p.defaults, k) ELSE UNSET)
    ELSE IF HasKey(p.sections, sec) /\ HasKey(Lookup(p.sections, sec), k)
    THEN Lookup(Lookup(p.sections, sec), k)
    ELSE UNSET

(***************************************************************************)
(* C3: a source B parsed into a document that earlier sources and calls    *)
(* built leaves, for every section and key, B's value where B defines one  *)
(* and the document's value where it does not; the sections are those of   *)
(* the document and of B; and the parse of B raises a duplicate error only *)
(* if B alone, parsed by an empty parser, raises it.  B is what a parse of *)
(* B by an empty parser stores.                                            *)
(***************************************************************************)
C3_Merge ==
    (last'.op \in {"read_string", "read"} /\ AllValuesStr) =>
        LET B == Read(EmptyParser, last'.value) IN
        /\ last'.res \in {DuplicateSectionError, DuplicateOptionError} => B.res = last'.res
        /\ B.res = NONE =>
             /\ last'.res = NONE
             /\ \A sec \in {SecS, SecT, DEFAULTSECT}, k \in {KeyX, KeyY} :
                    StoredValue(Self', sec, k) =
                        (IF StoredValue(B.p, sec, k) # UNSET THEN StoredValue(B.p, sec, k)
                         ELSE StoredValue(Self, sec, k))
             /\ \A sec \in {SecS, SecT} :
                    HasKey(sections', sec) <=>
                        (HasKey(sections, sec) \/ HasKey(B.p.sections, sec))

C3_LaterSourceWins == [][C3_Merge]_vars

\* [S] x = 1, y = 1 and then [S] X = 2, [T] x = 2: x of S is 2, y of S is
\* still 1, and T is new.
C3_Witness ==
    /\ last.op = "read_string"
    /\ last.res = NONE
    /\ nops >= 2
    /\ StoredValue(Self, SecS, KeyX) = <<"2">>
    /\ StoredValue(Self, SecS, KeyY) = <<"1">>
    /\ StoredValue(Self, SecT, KeyX) = <<"2">>

(***************************************************************************)
(* C6: the text write() gives for a document whose values are strings,     *)
(* parsed by an empty parser, gives the document again: the same sections  *)
(* in the same order, the same keys and the same raw values.               *)
(***************************************************************************)
C6_RoundTrip ==
    AllValuesStr =>
        LET r == Read(EmptyParser, write(Self)) IN
        /\ r.res = NONE
        /\ r.p.sections = sections
        /\ r.p.defaults = defaults

(***************************************************************************)
(* SpecRead: reads between mutations.  The parser is constructed with or   *)
(* without the defaults bar and baz; section S is assigned a dict, bar and *)
(* baz are set and removed in S and in the defaults; and options are read  *)
(* (get with and without vars and fallback, getboolean, getint), looked up *)
(* (option in section) and iterated.                                       *)
(***************************************************************************)
KeyFoo == <<"f", "o", "o">>
KeyBar == <<"b", "a", "r">>
KeyUpperBar == <<"B", "a", "r">>
KeyBaz == <<"b", "a", "z">>

\* The number of mutating calls a run of SpecRead makes.
MaxReadOps == 3

\* foo = %(bar)s%(baz)s
TplBarBaz == Ref(KeyBar) \o Ref(KeyBaz)

\* foo over its own bar and baz; foo alone under a name in capitals; a bar
\* that is no boolean and no int; a bar that is an int; nothing.
ReadDicts ==
    { << <<KeyFoo, TplBarBaz>>, <<KeyBar, <<"P">> >>, <<KeyBaz, <<"f">> >> >>,
      << <<KeyBaz, <<"f">> >>, <<KeyFoo, TplBarBaz>> >>,
      << <<KeyUpperBar, <<"m">> >> >>,
      << <<KeyBar, <<"0", "7">> >> >>,
      <<>> }

ReadDefaults_ == { <<>>, << <<KeyBar, <<"L">> >>, <<KeyBaz, <<"h">> >> >> }

ReadVars == << <<KeyBar, <<"D">> >> >>

InitRead == InitWith({"basic"}, {TRUE}, ReadDefaults_)

NextRead ==
    \/ AddSection(SecS, MaxReadOps)
    \/ \E d \in ReadDicts : SetSection(SecS, d, MaxReadOps)
    \/ SetSection(SecT, << <<KeyBar, <<"t">> >> >>, MaxReadOps)
    \/ \E sec \in {SecS, DEFAULTSECT} : Set(sec, KeyUpperBar, <<"n", "o">>, MaxReadOps)
    \/ \E sec \in {SecS, DEFAULTSECT}, k \in {KeyBar, KeyBaz} : RemoveOption(sec, k, MaxReadOps)
    \/ \E sec \in {SecS, SecT}, k \in {KeyFoo, KeyBar}, fb \in {UNSET, NONE, <<"F">>} :
          Get(sec, k, FALSE, <<>>, fb)
    \/ Get(SecS, KeyFoo, FALSE, ReadVars, UNSET)
    \/ Get(SecS, KeyBar, TRUE, <<>>, UNSET)
    \/ \E fb \in {UNSET, TRUE_} : GetBoolean(SecS, KeyBar, FALSE, <<>>, fb)
    \/ GetInt(SecS, KeyBar, FALSE, <<>>, UNSET)
    \/ \E k \in {KeyUpperBar, KeyBaz} : HasOption(SecS, k)
    \/ \E sec \in {SecS, SecT} : IterKeys(sec)

SpecRead == InitRead /\ [][NextRead]_vars

(***************************************************************************)
(* C11: a get without fallback raises NoSectionError for a section that is *)
(* not stored and NoOptionError for an option that neither the section nor *)
(* the defaults hold; with a fallback, None included, the same call        *)
(* returns the fallback.                                                   *)
(***************************************************************************)
C11_NoSection ==
    /\ last.op = "get"
    /\ last.section # DEFAULTSECT
    /\ \A i \in 1..Len(sections) : sections[i][1] # last.section

C11_NoOption ==
    /\ last.op = "get"
    /\ \E i \in 1..Len(sections) : sections[i][1] = last.section
    /\ FirstMatch(last.option) = UNSET

C12_Reads == {"get", "getboolean", "getint"}

\* What the document holds for a name of section S: S's own value, else the
\* defaults' value, else UNSET.
DocValue(name) ==
    IF StoredValue(Self, SecS, name) # UNSET THEN StoredValue(Self, SecS, name)
    ELSE StoredValue(Self, DEFAULTSECT, name)

C12_Frame ==
    last'.op \in C12_Reads => (sections' = sections /\ defaults' = defaults)

C12_VarsForgotten ==
    ( /\ last.op = "get" /\ last.vars # <<>>
      /\ last'.op = "get" /\ last'.vars = <<>> /\ ~last'.raw
      /\ last'.section = SecS /\ last'.option = KeyFoo
      /\ StoredValue(Self, SecS, KeyFoo) = TplBarBaz
      /\ Plain(DocValue(KeyBar)) /\ Plain(DocValue(KeyBaz)) )
        => last'.res = DocValue(KeyBar) \o DocValue(KeyBaz)

C12_RawAfterFailure ==
    ( /\ last.op \in {"getboolean", "getint"} /\ last.res \in {NotABoolean, ValueError}
      /\ last'.op = "get" /\ last'.raw
      /\ last'.section = last.section /\ Lower(last'.option) = Lower(last.option) )
        => (last'.res = DocValue(Lower(last.option)) /\ IsStr(last'.res))

C13_GetFoo ==
    /\ last.op = "get"
    /\ ~last.raw
    /\ last.vars = <<>>
    /\ last.section = SecS
    /\ last.option = KeyFoo
    /\ StoredValue(Self, SecS, KeyFoo) = TplBarBaz

C13_AnswersFromDocument ==
    C13_GetFoo =>
        last.res = (IF DocValue(KeyBar) = UNSET \/ DocValue(KeyBaz) = UNSET
                    THEN InterpolationMissingOptionError
                    ELSE DocValue(KeyBar) \o DocValue(KeyBaz))

\* S was assigned foo with its own bar and baz, both were removed, and foo
\* is now built from the defaults: Lh.
C13_Witness ==
    /\ C13_GetFoo
    /\ nops = 3
    /\ Keys(Lookup(sections, SecS)) = <<KeyFoo>>
    /\ defaults = << <<KeyBar, <<"L">> >>, <<KeyBaz, <<"h">> >> >>
    /\ last.res = <<"L", "h">>

(***************************************************************************)
(* C14 as claimed: for an option that the defaults hold and section S does *)
(* not, "option in S" is False.                                            *)
(***************************************************************************)
C14_DefaultsOnly ==
    /\ last.section = SecS
    /\ HasKey(sections, SecS)
    /\ StoredValue(Self, SecS, Lower(last.option)) = UNSET
    /\ StoredValue(Self, DEFAULTSECT, Lower(last.option)) # UNSET

C14_ExistenceIgnoresDefaults ==
    (last.op = "has_option" /\ C14_DefaultsOnly) => last.res = FALSE_

(***************************************************************************)
(* C14, amended: "option in S" is True of an option that S or the defaults *)
(* hold (it falls through to the defaults as get does) and False of any    *)
(* other; remove_option('S', K) never changes the defaults or another      *)
(* section: when S does not hold K it returns False and removes nothing,   *)
(* when S holds K it returns True and deletes S's own entry alone, and a   *)
(* get('S', K) that follows returns the defaults' value if they hold K.    *)
(***************************************************************************)
C14_Existence ==
    (last.op = "has_option" /\ last.section = SecS /\ HasKey(sections, SecS)) =>
        (last.res = TRUE_ <=> DocValue(Lower(last.option)) # UNSET)

C14_Remove ==
    (last'.op = "remove_option" /\ last'.section = SecS /\ HasKey(sections, SecS)) =>
        LET k == Lower(last'.option)
            own == Lookup(sections, SecS)
            own2 == Lookup(sections', SecS)
        IN
        /\ defaults' = defaults
        /\ Keys(sections') = Keys(sections)
        /\ \A i \in 1..Len(sections) : sections[i][1] # SecS => sections'[i] = sections[i]
        /\ ~HasKey(own, k) => (last'.res = FALSE_ /\ own2 = own)
        /\ HasKey(own, k) =>
              /\ last'.res = TRUE_
              /\ own2 = SelectSeq(own, LAMBDA e : e[1] # k)

C14_GetAfterRemove ==
    ( /\ last.op = "remove_option" /\ last.section = SecS /\ last.res = TRUE_
      /\ last'.op = "get" /\ last'.section = SecS /\ last'.vars = <<>>
      /\ Lower(last'.option) = Lower(last.option)
      /\ StoredValue(Self, DEFAULTSECT, Lower(last.option)) # UNSET )
        => last'.res = StoredValue(Self, DEFAULTSECT, Lower(last.option))

C14_RemoveIsLocal == []C14_Existence /\ [][C14_Remove /\ C14_GetAfterRemove]_vars

\* bar was removed from S, which held it, and the defaults still hold bar.
C14_Witness ==
    /\ last.op = "remove_option"
    /\ last.res = TRUE_
    /\ last.option = KeyBar
    /\ C14_DefaultsOnly
    /\ HasKey(sections, SecT)

(***************************************************************************)
(* C15: iterating a section gives its own keys in the order they were      *)
(* stored, then the keys that only the defaults hold in the defaults'      *)
(* order; every key is in lower case and is given once, a key of both at   *)
(* its place among the section's own keys.                                 *)
(***************************************************************************)
C15_Iterated ==
    /\ last.op = "iter"
    /\ last.section # DEFAULTSECT
    /\ HasKey(sections, last.section)

C15_KeyOrder ==
    C15_Iterated =>
        LET own == Keys(OwnOptions)
            isOwn(k) == \E i \in 1..Len(own) : own[i] = k
        IN
        /\ last.res = own \o SelectSeq(Keys(defaults), LAMBDA k : ~isOwn(k))
        /\ \A i \in 1..Len(last.res) :
              /\ last.res[i] = Lower(last.res[i])
              /\ \A j \in 1..Len(last.res) : last.res[j] = last.res[i] => j = i

\* S holds baz and foo, the defaults bar and baz: the keys are baz, foo, bar.
C15_Witness ==
    /\ C15_Iterated
    /\ Keys(defaults) = <<KeyBar, KeyBaz>>
    /\ last.res = <<KeyBaz, KeyFoo, KeyBar>>

(***************************************************************************)
(* C16: in every state that parsing, assigning, adding, setting and        *)
(* removing reach, the defaults and every section hold each key once, in   *)
(* lower case, and sections() names no section twice.                      *)
(***************************************************************************)
C16_NoRepeats(names) ==
    \A i, j \in 1..Len(names) : names[i] = names[j] => i = j

C16_Normalized(d) ==
    /\ C16_NoRepeats([i \in 1..Len(d) |-> Lower(d[i][1])])
    /\ \A i \in 1..Len(d) : d[i][1] = Lower(d[i][1])

C16_DocumentInvariants ==
    /\ C16_Normalized(defaults)
    /\ \A i \in 1..Len(sections) : C16_Normalized(sections[i][2])
    /\ C16_NoRepeats(SectionNames(Self))

\* X is set in S, which stores it as the one key x, beside a section s.
C16_Witness ==
    /\ last.op = "set"
    /\ last.section = SecS
    /\ last.option = KeyUpperX
    /\ nops = 3
    /\ HasKey(sections, SecLower)
    /\ HasKey(sections, SecS)
    /\ Lookup(sections, SecS) = << <<KeyX, last.value>> >>

(***************************************************************************)
(* SpecParse: one parser, strict or not, that parses sources one after the *)
(* other: sources that repeat a key or a section header, and sources that  *)
(* do not.                                                                 *)
(***************************************************************************)
\* The number of mutating calls a run of SpecParse makes.
MaxParseOps == 2

\* What the constructor's strict= is when the call does not give it.
DefaultStrict == TRUE

\* [S] with x, y and X: the key x twice.
DupKeySource ==
    Text(<< HeaderLine(SecS), OptLine(KeyX, <<"1">>), OptLine(KeyY, <<"2">>),
            OptLine(KeyUpperX, <<"3">>) >>)

\* [S] x, [T] y, [S] y: the header [S] twice.
DupSectSource ==
    Text(<< HeaderLine(SecS), OptLine(KeyX, <<"1">>), HeaderLine(SecT),
            OptLine(KeyY, <<"2">>), HeaderLine(SecS), OptLine(KeyY, <<"3">>) >>)

\* [S] y z, and [T] x [S] x: every header and every key once.
PlainS == Text(<< HeaderLine(SecS), OptLine(KeyY, <<"4">>), OptLine(KeyZ, <<"4">>) >>)

PlainTS ==
    Text(<< HeaderLine(SecT), OptLine(KeyX, <<"5">>), HeaderLine(SecS),
            OptLine(KeyX, <<"5">>) >>)

PlainSources == {PlainS, PlainTS}

ParseSources == {DupKeySource, DupSectSource} \union PlainSources

InitParse == InitWith({"basic"}, {TRUE, FALSE}, {<<>>})

NextParse ==
    \/ AddSection(SecS, MaxParseOps)
    \/ \E text \in ParseSources : ReadString(text, MaxParseOps)
    \/ \E sec \in {SecS, SecT}, k \in {KeyX, KeyY} : Get(sec, k, FALSE, <<>>, UNSET)
    \/ IterKeys(SecS)

SpecParse == InitParse /\ [][NextParse]_vars

\* The keys of section sec in p, none when p has no such section.
OwnKeys(p, sec) == IF HasKey(p.sections, sec) THEN Keys(Lookup(p.sections, sec)) ELSE <<>>

\* The keys of `given`, in order, that are not among `old`.
NewKeys(old, given) == SelectSeq(given, LAMBDA k : \A i \in 1..Len(old) : old[i] # k)

\* C17 as stated: a source that gives the same key twice in one section is
\* parsed without error by a parser constructed with the default
\* configuration, the key holding the last value, and only a parser
\* configured strict answers with a duplicate-option error.
C17_DefaultOverwrites ==
    (last.op = "read_string" /\ last.value = DupKeySource) =>
        IF strict = DefaultStrict
        THEN /\ last.res = NONE
             /\ HasKey(sections, SecS)
             /\ Lookup(Lookup(sections, SecS), KeyX) = <<"3">>
        ELSE last.res = DuplicateOptionError

\* C17, amended: a source that gives the same key twice in one section gets
\* a duplicate-option error from a strict parser, which is what the default
\* configuration is; a parser constructed with strict off parses it, and the
\* key keeps the place of its first occurrence and holds the last value.
C17_Step ==
    (last'.op = "read_string" /\ last'.value = DupKeySource) =>
        IF strict
        THEN strict = DefaultStrict /\ last'.res = DuplicateOptionError
        ELSE /\ last'.res = NONE
             /\ OwnKeys(Self', SecS)
                  = OwnKeys(Self, SecS) \o NewKeys(OwnKeys(Self, SecS), <<KeyX, KeyY>>)
             /\ Lookup(Lookup(sections', SecS), KeyX) = <<"3">>
             /\ Lookup(Lookup(sections', SecS), KeyY) = <<"2">>

C17_DuplicateKey == [][C17_Step]_vars

\* A parser with strict off has parsed the source with x twice into an empty
\* document: S holds x first, with the last value, and then y.
C17_Witness ==
    /\ ~strict
    /\ last.op = "read_string"
    /\ last.value = DupKeySource
    /\ last.res = NONE
    /\ nops = 1
    /\ sections = << <<SecS, << <<KeyX, <<"3">> >>, <<KeyY, <<"2">> >> >> >> >>

\* What a source gives section S: the plain sources, each with the keys and
\* values of its [S].
GivenS ==
    { <<PlainS, << <<KeyY, <<"4">> >>, <<KeyZ, <<"4">> >> >> >>,
      <<PlainTS, << <<KeyX, <<"5">> >> >> >> }

\* Section S after the step holds what it held, with the keys of `given` at
\* the values `given` has for them, new keys after the old ones.
C18_Merged(given) ==
    LET own == Lookup(sections, SecS)
        own2 == Lookup(sections', SecS)
    IN
    /\ HasKey(sections', SecS)
    /\ Keys(own2) = Keys(own) \o NewKeys(Keys(own), Keys(given))
    /\ \A i \in 1..Len(given) : Lookup(own2, given[i][1]) = given[i][2]
    /\ \A i \in 1..Len(own) :
         (~HasKey(given, own[i][1]) /\ IsStr(own[i][2])) => Lookup(own2, own[i][1]) = own[i][2]

\* A source with a header of S, parsed into a document that has S already
\* from an earlier source or from add_section, raises nothing and merges.
C18_AcrossPasses ==
    \A g \in GivenS :
        (last'.op = "read_string" /\ last'.value = g[1] /\ HasKey(sections, SecS)) =>
            /\ last'.res = NONE
            /\ C18_Merged(g[2])

\* C18 as stated: whatever the parser's configuration, a source with the
\* header [S] twice gets a duplicate-section error, and a source whose [S]
\* names a section that earlier sources or add_section made gets none, its
\* keys merged into that section.
C18_AnyParserStep ==
    /\ (last'.op = "read_string" /\ last'.value = DupSectSource) =>
           last'.res = DuplicateSectionError
    /\ C18_AcrossPasses

C18_AnyParserDetects == [][C18_AnyParserStep]_vars

\* C18, amended: a strict parser, which is what the default configuration
\* is, answers a source with the header [S] twice with a duplicate-section
\* error, and a parser with strict off parses it, the second [S] continuing
\* the first; for either, a source whose [S] names a section that earlier
\* sources or add_section made gets no error, its keys merged into that
\* section.
C18_Step ==
    /\ (last'.op = "read_string" /\ last'.value = DupSectSource) =>
           IF strict
           THEN strict = DefaultStrict /\ last'.res = DuplicateSectionError
           ELSE /\ last'.res = NONE
                /\ Lookup(Lookup(sections', SecS), KeyX) = <<"1">>
                /\ Lookup(Lookup(sections', SecS), KeyY) = <<"3">>
                /\ Lookup(Lookup(sections', SecT), KeyY) = <<"2">>
    /\ C18_AcrossPasses

C18_ScopedToPass == [][C18_Step]_vars

\* A strict parser has parsed [T] x [S] x and then [S] y z: no error, and S
\* holds x of the first source and then y and z of the second.
C18_Witness ==
    /\ strict
    /\ last.op = "read_string"
    /\ last.value = PlainS
    /\ last.res = NONE
    /\ nops = 2
    /\ HasKey(sections, SecS)
    /\ Lookup(sections, SecS)
         = << <<KeyX, <<"5">> >>, <<KeyY, <<"4">> >>, <<KeyZ, <<"4">> >> >>

(***************************************************************************)
(* SpecChain: a section whose options refer one to the next, k01 to k02 to *)
(* ... to the last, which holds a plain string; the options are read.      *)
(***************************************************************************)
\* The number of mutating calls a run of SpecChain makes.
MaxChainOps == 2

\* The longest chain a run of SpecChain stores.
MaxChain == 13

\* The i-th key of a chain: k01, k02, ...
ChainKey(i) == <<"k", DigitChars[(i \div 10) + 1], DigitChars[(i % 10) + 1]>>

\* The plain string the last key of a chain holds.
ChainEnd == <<"v">>

\* {k01: %(k02)s, k02: %(k03)s, ..., k<n>: v}
Chain(n) ==
    [i \in 1..n |-> <<ChainKey(i), IF i < n THEN Ref(ChainKey(i + 1)) ELSE ChainEnd>>]

InitChain == InitWith({"basic"}, {TRUE}, {<<>>})

NextChain ==
    \/ \E n \in 1..MaxChain : SetSection(SecS, Chain(n), MaxChainOps)
    \/ \E i \in 1..MaxChain : Get(SecS, ChainKey(i), FALSE, <<>>, UNSET)
    \/ Get(SecS, ChainKey(1), TRUE, <<>>, UNSET)

SpecChain == InitChain /\ [][NextChain]_vars

\* The substitutions reading key i of a chain of n keys needs: one for each
\* placeholder on the way from key i to the last key.
ChainLevels(n, i) == n - i

\* C19: reading (not raw) a key of an acyclic chain whose last key holds v
\* gives v when the chain from that key needs at most
\* MAX_INTERPOLATION_DEPTH levels of substitution, and the error
\* "interpolation depth exceeded" when it needs more.
C19_ChainWithinDepth ==
    (/\ last.op = "get"
     /\ ~last.raw
     /\ HasKey(sections, SecS)
     /\ HasKey(Lookup(sections, SecS), last.option)) =>
        LET own == Lookup(sections, SecS)
            levels == ChainLevels(Len(own), Index(own, last.option))
        IN
        /\ own = Chain(Len(own))
        /\ last.res = IF levels <= MAX_INTERPOLATION_DEPTH
                      THEN ChainEnd
                      ELSE InterpolationDepthError

\* The first key of a chain of MAX_INTERPOLATION_DEPTH + 2 keys, one level
\* too many, was read: the depth error, of a chain without a cycle.
C19_Witness ==
    /\ last.op = "get"
    /\ ~last.raw
    /\ last.option = ChainKey(1)
    /\ sections = << <<SecS, Chain(MAX_INTERPOLATION_DEPTH + 2)>> >>
    /\ last.res = InterpolationDepthError

\* The first key of a chain of MAX_INTERPOLATION_DEPTH + 1 keys, as many
\* levels as the bound allows, was read: v.
C19_WitnessAtBound ==
    /\ last.op = "get"
    /\ ~last.raw
    /\ last.option = ChainKey(1)
    /\ sections = << <<SecS, Chain(MAX_INTERPOLATION_DEPTH + 1)>> >>
    /\ last.res = ChainEnd

(***************************************************************************)
(* SpecMulti: a parser with the default configuration parses sources whose *)
(* lines are indented: key lines, lines after a key line, blank and        *)
(* comment lines between them, and a line that is no key line.             *)
(***************************************************************************)
\* The number of mutating calls a run of SpecMulti makes.
MaxMultiOps == 3

\* The deepest indentation of a key line.
MaxKeyIndent == 1

Indent(n) == [i \in 1..n |-> " "]

\* [S], x = a at indentation ki, b at indentation ci, an empty line if
\* blank, a comment at the margin, c one deeper than b, y = 1 as deep as x.
Multi(ki, ci, blank) ==
    Text(<< HeaderLine(SecS),
            Indent(ki) \o OptLine(KeyX, <<"a">>),
            Indent(ci) \o <<"b">> >>
         \o (IF blank THEN << <<>> >> ELSE <<>>)
         \o << <<"#", " ", "n">>,
               Indent(ci + 1) \o <<"c">>,
               Indent(ki) \o OptLine(KeyY, <<"1">>) >>)

\* [S], an indented line that is no key line, x = 1.
StraySource ==
    Text(<< HeaderLine(SecS), Indent(2) \o <<"b">>, OptLine(KeyX, <<"1">>) >>)

MultiArgs == (0..MaxKeyIndent) \X (1..(MaxKeyIndent + 1)) \X BOOLEAN

MultiSources == { Multi(a[1], a[2], a[3]) : a \in MultiArgs } \union {StraySource, PlainS}

InitMulti == InitWith({"basic"}, {DefaultStrict}, {<<>>})

NextMulti ==
    \/ \E text \in MultiSources : ReadString(text, MaxMultiOps)
    \/ \E k \in {KeyX, KeyY} : Get(SecS, k, FALSE, <<>>, UNSET)
    \/ IterKeys(SecS)

SpecMulti == InitMulti /\ [][NextMulti]_vars

\* The value of x in Multi(ki, ci, blank) when b and c continue it: a, b, an
\* empty line if blank, and c, one to a line.
MultiValue(blank) ==
    <<"a", NL, "b", NL>> \o (IF blank THEN <<NL>> ELSE <<>>) \o <<"c">>

\* What a value is while it is open, in every parse: lines indented deeper
\* than the key line are appended to it, de-indented, each after a newline,
\* blank lines with them and comment lines not, and the first line that is
\* not blank, not a comment and not indented deeper closes it.
C20_Continued ==
    \A a \in MultiArgs :
        (/\ last'.op = "read_string"
         /\ last'.value = Multi(a[1], a[2], a[3])
         /\ a[2] > a[1]) =>
            /\ HasKey(sections', SecS)
            /\ Keys(Lookup(sections', SecS))
                 = OwnKeys(Self, SecS) \o NewKeys(OwnKeys(Self, SecS), <<KeyX, KeyY>>)
            /\ Lookup(Lookup(sections', SecS), KeyX) = MultiValue(a[3])
            /\ Lookup(Lookup(sections', SecS), KeyY) = <<"1">>

\* A line of a section that is no key line and no header gets a ParsingError
\* with the 1-based number of the line: the indented line 2 of StraySource,
\* and line 3 of a Multi source whose b is no deeper than its key line.
C20_LineNumbers ==
    /\ (last'.op = "read_string" /\ last'.value = StraySource) =>
           /\ last'.res = ParsingError
           /\ ParsingErrorLines(Self, last'.value) = <<2>>
    /\ \A a \in MultiArgs :
           (/\ last'.op = "read_string"
            /\ last'.value = Multi(a[1], a[2], a[3])
            /\ a[2] <= a[1]) =>
               /\ last'.res = ParsingError
               /\ ParsingErrorLines(Self, last'.value) = <<3>>

\* C20 as stated: values continue over the lines indented deeper than their
\* key line, and a line that is indented when no value is open, as the first
\* line of a section, gets a ParseError with its line number: line 2 of a
\* source whose first key line is indented.
C20_IndentedFirstLineStep ==
    /\ C20_Continued
    /\ C20_LineNumbers
    /\ \A a \in MultiArgs :
           (/\ last'.op = "read_string"
            /\ last'.value = Multi(a[1], a[2], a[3])
            /\ a[1] > 0) =>
               /\ last'.res = ParsingError
               /\ \E i \in 1..Len(ParsingErrorLines(Self, last'.value)) :
                      ParsingErrorLines(Self, last'.value)[i] = 2

C20_IndentedFirstLineIsError == [][C20_IndentedFirstLineStep]_vars

\* C20, amended: values continue over the lines indented deeper than their
\* key line; in a section, a line that is indented when no value is open is
\* read as a line at the margin is: a key line opens a value, without error
\* when the lines after it are deeper, and a line that is no key line gets a
\* ParsingError with its 1-based line number.
C20_Step ==
    /\ C20_Continued
    /\ C20_LineNumbers
    /\ \A a \in MultiArgs :
           (/\ last'.op = "read_string"
            /\ last'.value = Multi(a[1], a[2], a[3])
            /\ a[2] > a[1]) =>
               /\ last'.res = NONE
               /\ ParsingErrorLines(Self, last'.value) = <<>>

C20_MultilineValues == [][C20_Step]_vars

\* The source with x = a indented by one, b by two, an empty line, a comment
\* and c by three was parsed: no error, and x holds a, b, an empty line and c.
C20_Witness ==
    /\ last.op = "read_string"
    /\ last.value = Multi(1, 2, TRUE)
    /\ last.res = NONE
    /\ HasKey(sections, SecS)
    /\ Lookup(sections, SecS)
         = << <<KeyX, <<"a", NL, "b", NL, NL, "c">> >>, <<KeyY, <<"1">> >> >>

(***************************************************************************)
(* SpecHead: a parser with the default configuration parses sources that   *)
(* have a key line before their first header, a [DEFAULT] header, and      *)
(* headers that no option follows.                                         *)
(***************************************************************************)
\* The number of mutating calls a run of SpecHead makes.
MaxHeadOps == 3

\* x = 1 before the first header, [S] y.
HeadlessSource ==
    Text(<< OptLine(KeyX, <<"1">>), HeaderLine(SecS), OptLine(KeyY, <<"2">>) >>)

\* [DEFAULT] x, [S] y.
DefaultHeaderSource ==
    Text(<< HeaderLine(DEFAULTSECT), OptLine(KeyX, <<"1">>), HeaderLine(SecS),
            OptLine(KeyY, <<"2">>) >>)

\* [S] with no option, [T] x; and a comment, an empty line and [S].
EmptySectionSources ==
    { Text(<< HeaderLine(SecS), HeaderLine(SecT), OptLine(KeyX, <<"3">>) >>),
      Text(<< <<"#", " ", "c">>, <<>>, HeaderLine(SecS) >>) }

HeadSources == {HeadlessSource, DefaultHeaderSource, PlainS} \union EmptySectionSources

InitHead == InitWith({"basic"}, {DefaultStrict}, {<<>>})

NextHead ==
    \/ \E text \in HeadSources : ReadString(text, MaxHeadOps)
    \/ \E sec \in {SecS, SecT}, k \in {KeyX, KeyY} : Get(sec, k, FALSE, <<>>, UNSET)
    \/ \E sec \in {SecS, SecT} : HasSection(sec)
    \/ IterKeys(SecS)

SpecHead == InitHead /\ [][NextHead]_vars

\* A source whose first header is followed by no option: the section is in
\* the document after the parse and sections() lists it.
C21_EmptySectionKept ==
    (last.op = "read_string" /\ last.value \in EmptySectionSources) =>
        /\ last.res = NONE
        /\ HasKey(sections, SecS)
        /\ \E i \in 1..Len(SectionNames(Self)) : SectionNames(Self)[i] = SecS

\* C21 as stated: the key line before the first header of a source is
\* stored in the defaults, every section answers get with it, and the parse
\* raises nothing; a section without options is created and listed.
C21_HeadlessGoesToDefaults ==
    /\ (last.op = "read_string" /\ last.value = HeadlessSource) =>
           /\ last.res = NONE
           /\ HasKey(defaults, KeyX)
           /\ Lookup(defaults, KeyX) = <<"1">>
           /\ get(Self, SecS, KeyX, FALSE, <<>>, UNSET) = <<"1">>
    /\ C21_EmptySectionKept

\* The parse of a source with a key line before its first header raises
\* MissingSectionHeaderError and stores nothing; what a [DEFAULT] header
\* brings is stored in the defaults, and every section answers get with it.
C21_HeaderStep ==
    /\ (last'.op = "read_string" /\ last'.value = HeadlessSource) =>
           /\ last'.res = MissingSectionHeaderError
           /\ sections' = sections
           /\ defaults' = defaults
    /\ (last'.op = "read_string" /\ last'.value = DefaultHeaderSource) =>
           /\ last'.res = NONE
           /\ HasKey(defaults', KeyX)
           /\ Lookup(defaults', KeyX) = <<"1">>
           /\ \A i \in 1..Len(sections') :
                  get(Self', sections'[i][1], KeyX, FALSE, <<>>, UNSET)
                      = IF HasKey(sections'[i][2], KeyX)
                        THEN Lookup(sections'[i][2], KeyX) ELSE <<"1">>

\* C21, amended: the parser has no current section before the first
\* header, so a key line there fails the parse with the missing-header
\* error; the defaults are filled under a [DEFAULT] header; a section
\* without options is created and listed.
C21_HeaderNeeded == []C21_EmptySectionKept /\ [][C21_HeaderStep]_vars

\* After [S] without options and [T] x, the source with x = 1 before its
\* first header was parsed: the error, S still empty and listed, no defaults.
C21_Witness ==
    /\ last.op = "read_string"
    /\ last.value = HeadlessSource
    /\ last.res = MissingSectionHeaderError
    /\ sections = << <<SecS, <<>> >>, <<SecT, << <<KeyX, <<"3">> >> >> >> >>
    /\ defaults = <<>>

(***************************************************************************)
(* SpecFallback: the four getters, called with a fallback for options that *)
(* the section or the defaults store and for options that nothing stores.  *)
(***************************************************************************)
\* The number of mutating calls a run of SpecFallback makes.
MaxFallbackOps == 2

\* {foo: %(bar)s}, {bar: 1.5}, {bar: yes, baz: 1} and {}
FallbackDicts ==
    { << <<KeyFoo, Ref(KeyBar)>> >>,
      << <<KeyBar, <<"1", ".", "5">> >> >>,
      << <<KeyBar, <<"y", "e", "s">> >>, <<KeyBaz, <<"1">> >> >>,
      <<>> }

\* No defaults, and {baz: 07}.
FallbackDefaults == { <<>>, << <<KeyBaz, <<"0", "7">> >> >> }

\* fallback=None, True, '%(bar)s', 'yes', '07', and no fallback=.
Fallbacks == {UNSET, NONE, TRUE_, Ref(KeyBar), <<"y", "e", "s">>, <<"0", "7">>}

InitFallback == InitWith({"basic"}, {DefaultStrict}, FallbackDefaults)

NextFallback ==
    \/ \E d \in FallbackDicts : SetSection(SecS, d, MaxFallbackOps)
    \/ \E k \in {KeyBar, KeyBaz} : RemoveOption(SecS, k, MaxFallbackOps)
    \/ \E sec \in {SecS, SecT}, k \in {KeyFoo, KeyBar, KeyUpperBar, KeyBaz}, fb \in Fallbacks :
          \/ Get(sec, k, FALSE, <<>>, fb)
          \/ GetBoolean(sec, k, FALSE, <<>>, fb)
          \/ GetInt(sec, k, FALSE, <<>>, fb)
          \/ GetFloat(sec, k, FALSE, <<>>, fb)

SpecFallback == InitFallback /\ [][NextFallback]_vars

Getters == {"get", "getboolean", "getint", "getfloat"}

\* Neither the section (if the document has it) nor the defaults store the
\* option under its lower-case name.
StoredNowhere(section, option) ==
    /\ ~HasKey(defaults, Lower(option))
    /\ HasKey(sections, section) => ~HasKey(Lookup(sections, section), Lower(option))

\* C22: a getter called with fallback=F for an option that neither the
\* section nor the defaults store returns F as it was given, a string not
\* interpolated and not converted to bool, int or float, None as None, and
\* leaves the document as it was.
C22_Step ==
    (/\ last'.op \in Getters
     /\ last'.fallback # UNSET
     /\ last'.vars = <<>>
     /\ StoredNowhere(last'.section, last'.option)) =>
        /\ last'.res = last'.fallback
        /\ sections' = sections
        /\ defaults' = defaults

C22_FallbackAsGiven == [][C22_Step]_vars

\* getboolean was called with fallback='yes' for foo, which the section S
\* (that holds bar) and the defaults (that hold baz) do not store: 'yes'.
C22_Witness ==
    /\ last.op = "getboolean"
    /\ last.section = SecS
    /\ last.option = KeyFoo
    /\ last.fallback = <<"y", "e", "s">>
    /\ last.res = <<"y", "e", "s">>
    /\ HasKey(sections, SecS)
    /\ HasKey(Lookup(sections, SecS), KeyBar)
    /\ HasKey(defaults, KeyBaz)

====
